---- MODULE Spec2Model ----
(***************************************************************************)
(* A model of the document-analysis service of misyatintin/ANALYSIS-DOC:   *)
(*   - call_openrouter, the retrying caller of the chat-completion API     *)
(*     (backend/openrouter_service.py), as a state machine with one step   *)
(*     per loop iteration (specification SpecCaller);                      *)
(*   - build_file_content, the pure content builder (SpecBuild);           *)
(*   - the HTTP handlers of backend/main.py over the tables of             *)
(*     backend/database.py (specification Spec).                           *)
(* Text is modelled as sequences of tokens, so that parsing, stripping,    *)
(* searching and splitting are computed and not assumed.                   *)
(***************************************************************************)
EXTENDS Integers, Sequences, FiniteSets, TLC

VARIABLES
    \* ---- call_openrouter ----
    cstate,      \* "idle", "running", "returned", "raised"
    c_retries,   \* the retries parameter of the call
    attempt,     \* the loop variable of `for attempt in range(retries + 1)`
    last_error,  \* the local last_error
    posts,       \* POSTs issued by this call so far
    ret,         \* the value returned
    exc,         \* the exception that left the call
    printed,     \* what the last iteration printed to the log
    lastReply,   \* history: the class of the reply of the last iteration
    priorBad,    \* history: every earlier reply of this call was undecodable JSON
    \* ---- build_file_content ----
    b_in,        \* the arguments (file_data, filename, file_type)
    b_out,       \* the result of the call (NotCalled before it)
    b_again,     \* the result of a second call with the same arguments
    \* ---- openrouter_service.analyze_document ----
    a_in,        \* the arguments (file, analysis_type, kwargs)
    a_out,       \* the template functions the call invoked, in order (NotAnalyzed before it)
    \* ---- POST /analyze down to call_openrouter ----
    q_in,        \* the AnalysisRequest and the document it names
    q_out,       \* the call of call_openrouter it leads to (NotSent before it)
    \* ---- the connection pool of database.py ----
    checked_out, \* connections taken from the pool and not given back
    g_last,      \* history: the last gateway operation and how it ended
    \* ---- the service ----
    workspaces,  \* table workspaces: id -> row
    documents,   \* table documents: id -> row
    comparisons, \* table comparisons: sequence of rows (the index is the id)
    matrices,    \* table decision_matrices: sequence of rows
    analyses,    \* table analysis_results: id -> row
    charts,      \* table charts: id -> row
    qa_history,  \* table qa_history: sequence of rows
    schema,      \* the routine that created the tables: "init_database" or "init_tables"
    nextId,      \* the AUTO_INCREMENT counters, and the number of requests received
    pending,     \* the requests suspended in their upstream call
    upstream,    \* number of upstream calls started
    event        \* history: the last handler step, what it was given and what it did

callerVars == <<cstate, c_retries, attempt, last_error, posts, ret, exc, printed, lastReply, priorBad>>
buildVars == <<b_in, b_out, b_again>>
dispatchVars == <<a_in, a_out>>
promptVars == <<q_in, q_out>>
gatewayVars == <<checked_out, g_last>>
serviceVars == <<workspaces, documents, comparisons, matrices, analyses, charts, qa_history, schema,
                 nextId, pending, upstream, event>>
vars == <<callerVars, buildVars, dispatchVars, promptVars, gatewayVars, serviceVars>>

(***************************************************************************)
(* Bounds of the model.                                                    *)
(***************************************************************************)
\* largest retries argument explored (the source's default is 2)
MaxRetries == 2
\* longest reply content, in tokens
MaxContentLen == 4
\* nesting depth at which the JSON decoder gives up with RecursionError; it
\* stands for the interpreter's recursion limit, scaled to MaxContentLen
RecursionLimit == 2

NULL == "NULL"

(***************************************************************************)
(* Text.  A reply content is a sequence over Alphabet: the structural      *)
(* characters of JSON, "n" for the literal null and " " for whitespace.    *)
(***************************************************************************)
Alphabet == {"{", "}", "[", "]", "n", " "}

Texts == UNION {[1..k -> Alphabet] : k \in 0..MaxContentLen}

\* str.strip(): leading and trailing whitespace removed
RECURSIVE strip(_)
strip(s) ==
    IF s = <<>> THEN s
    ELSE IF Head(s) = " " THEN strip(Tail(s))
    ELSE IF s[Len(s)] = " " THEN strip(SubSeq(s, 1, Len(s) - 1))
    ELSE s

\* the first index >= i of s that holds no whitespace (Len(s)+1 if none)
RECURSIVE SkipWs(_, _)
SkipWs(s, i) ==
    IF i > Len(s) THEN Len(s) + 1
    ELSE IF s[i] = " " THEN SkipWs(s, i + 1)
    ELSE i

\* the characters with a role in the JSON grammar; any other token is a
\* scalar (null, a number)
Structural == {"{", "}", "[", "]", ",", ":", " ", "\""}

\* the index after the string that opens at index i (a quote), 0 if it is
\* not closed
string_end(s, i) ==
    LET closing == {j \in (i + 1)..Len(s) : s[j] = "\""} IN
    IF closing = {} THEN 0
    ELSE (CHOOSE j \in closing : \A k \in closing : j <= k) + 1

\* The decoder's scan of one value starting at index i (whitespace skipped),
\* entered at nesting depth d with the recursion limit lim.  It stops at the
\* first of: a syntax error, or a nested array/object entered beyond lim.
\* scan_items scans the elements of an array from index i to its "]",
\* scan_members the members of an object to its "}".
RECURSIVE scan_once(_, _, _, _)
RECURSIVE scan_items(_, _, _, _)
RECURSIVE scan_members(_, _, _, _)
scan_once(s, i, d, lim) ==
    IF i > Len(s) THEN [st |-> "syntax", next |-> i]
    ELSE IF s[i] \notin Structural THEN [st |-> "ok", next |-> i + 1]
    ELSE IF s[i] = "\"" THEN
        IF string_end(s, i) = 0 THEN [st |-> "syntax", next |-> i]
        ELSE [st |-> "ok", next |-> string_end(s, i)]
    ELSE IF s[i] = "{" THEN
        IF d + 1 > lim THEN [st |-> "recursion", next |-> i]
        ELSE LET j == SkipWs(s, i + 1) IN
             IF j <= Len(s) /\ s[j] = "}" THEN [st |-> "ok", next |-> j + 1]
             ELSE scan_members(s, j, d + 1, lim)
    ELSE IF s[i] = "[" THEN
        IF d + 1 > lim THEN [st |-> "recursion", next |-> i]
        ELSE LET j == SkipWs(s, i + 1) IN
             IF j <= Len(s) /\ s[j] = "]" THEN [st |-> "ok", next |-> j + 1]
             ELSE scan_items(s, j, d + 1, lim)
    ELSE [st |-> "syntax", next |-> i]

scan_items(s, i, d, lim) ==
    LET r == scan_once(s, i, d, lim) IN
    IF r.st # "ok" THEN r
    ELSE LET k == SkipWs(s, r.next) IN
         IF k <= Len(s) /\ s[k] = "]" THEN [st |-> "ok", next |-> k + 1]
         ELSE IF k <= Len(s) /\ s[k] = "," THEN scan_items(s, SkipWs(s, k + 1), d, lim)
         ELSE [st |-> "syntax", next |-> k]

scan_members(s, i, d, lim) ==
    IF i > Len(s) \/ s[i] # "\"" \/ string_end(s, i) = 0 THEN [st |-> "syntax", next |-> i]
    ELSE LET c == SkipWs(s, string_end(s, i)) IN
         IF c > Len(s) \/ s[c] # ":" THEN [st |-> "syntax", next |-> c]
         ELSE LET r == scan_once(s, SkipWs(s, c + 1), d, lim) IN
              IF r.st # "ok" THEN r
              ELSE LET k == SkipWs(s, r.next) IN
                   IF k <= Len(s) /\ s[k] = "}" THEN [st |-> "ok", next |-> k + 1]
                   ELSE IF k <= Len(s) /\ s[k] = "," THEN scan_members(s, SkipWs(s, k + 1), d, lim)
                   ELSE [st |-> "syntax", next |-> k]

\* The value a text denotes: its tokens without the insignificant whitespace,
\* typed by its first token.
PyValue(s) ==
    LET t == SelectSeq(s, LAMBDA c : c # " ") IN
    IF t[1] = "{" THEN [py |-> "dict", json |-> t]
    ELSE IF t[1] = "[" THEN [py |-> "list", json |-> t]
    ELSE [py |-> "None", json |-> t]

\* json.loads(s) under recursion limit lim: the value, or the error raised
decode(s, lim) ==
    LET r == scan_once(s, SkipWs(s, 1), 0, lim) IN
    IF r.st = "recursion" THEN [st |-> "RecursionError"]
    ELSE IF r.st = "syntax" THEN [st |-> "JSONDecodeError"]
    ELSE IF SkipWs(s, r.next) <= Len(s) THEN [st |-> "JSONDecodeError"]  \* Extra data
    ELSE [st |-> "ok", value |-> PyValue(s)]

json_loads(s) == decode(s, RecursionLimit)

\* re.search(r'\{[\s\S]*\}', s): from the first "{" to the last "}" (greedy)
re_search(s) ==
    LET opens == {i \in 1..Len(s) : s[i] = "{"}
        closes == {i \in 1..Len(s) : s[i] = "}"}
    IN  IF opens = {} \/ closes = {} THEN [found |-> FALSE, group |-> <<>>]
        ELSE LET i == CHOOSE a \in opens : \A b \in opens : a <= b
                 j == CHOOSE a \in closes : \A b \in closes : a >= b
             IN  IF i < j THEN [found |-> TRUE, group |-> SubSeq(s, i, j)]
                 ELSE [found |-> FALSE, group |-> <<>>]

(***************************************************************************)
(* Upstream replies.  One reply per POST: a timeout, or an HTTP response   *)
(* with a status and a body.  A body is one of the envelope shapes the     *)
(* code tells apart.                                                       *)
(***************************************************************************)
Shapes == {"NotJson",      \* response.json() raises JSONDecodeError
           "NoChoices",    \* no "choices", or an empty list
           "NoMessage",    \* choices[0] has no "message", or an empty one
           "NoContent",    \* the message has no "content" key: KeyError
           "NullContent"}  \* "content": null

Bodies == {[shape |-> sh, content |-> <<>>] : sh \in Shapes}
          \cup {[shape |-> "Content", content |-> t] : t \in Texts}

Replies == {[tag |-> "timeout", status |-> 0, body |-> [shape |-> "NotJson", content |-> <<>>]]}
           \cup {[tag |-> "http", status |-> 500, body |-> [shape |-> "NotJson", content |-> <<>>]]}
           \cup {[tag |-> "http", status |-> 200, body |-> b] : b \in Bodies}

(***************************************************************************)
(* Exceptions.  msg is str(e) as a sequence of words; at is the loop index *)
(* of the iteration that created the exception (history).                  *)
(***************************************************************************)
Exception(type, msg, at) == [type |-> type, msg |-> msg, at |-> at]

None == [type |-> "None", msg |-> <<>>, at |-> -1]

ApiError(status, at) ==
    Exception("Exception", <<"OpenRouter", "API", "error:", ToString(status)>>, at)
InvalidStructure(at) ==
    Exception("Exception", <<"Invalid", "API", "response", "structure">>, at)
EmptyResponse(at) ==
    Exception("Exception", <<"Empty", "response", "from", "AI">>, at)
ParseFailure(at) ==
    Exception("Exception", <<"Failed", "to", "parse", "AI", "response", "as", "JSON">>, at)
TimedOut(at) ==
    Exception("Exception", <<"Request", "timed", "out">>, at)
UnknownError ==
    Exception("Exception", <<"Unknown", "error">>, -1)
\* raised by httpx: httpx.TimeoutException
TimeoutException(at) ==
    Exception("TimeoutException", <<"The", "read", "operation", "timed", "out">>, at)
\* raised by response.json() on a body that is not JSON
BodyDecodeError(at) ==
    Exception("JSONDecodeError", <<"Expecting", "value:", "line", "1", "column", "1", "(char", "0)">>, at)
\* raised by message["content"] on a message without that key
KeyError(at) ==
    Exception("KeyError", <<"'content'">>, at)
\* raised by the decoder when the nesting exceeds the recursion limit
RecursionError(at) ==
    Exception("RecursionError",
              <<"maximum", "recursion", "depth", "exceeded", "while", "decoding",
                "a", "JSON", "array", "from", "a", "unicode", "string">>, at)

\* line 163: "OpenRouter" in str(e) or "Empty" in str(e) or "JSON" in str(e)
mentions_keyword(e) ==
    \E i \in 1..Len(e.msg) : e.msg[i] \in {"OpenRouter", "Empty", "JSON"}

NoValue == [py |-> "unset", json |-> <<>>]

\* The three ways one loop iteration ends, with the locals it leaves behind.
Return(v, le, p) ==
    [ctl |-> "return", value |-> v, exc |-> None, last_error |-> le, printed |-> p]
Continue(le, p) ==
    [ctl |-> "continue", value |-> NoValue, exc |-> None, last_error |-> le, printed |-> p]
Raise(e, le, p) ==
    [ctl |-> "raise", value |-> NoValue, exc |-> e, last_error |-> le, printed |-> p]

\* mutation of classified: last_error is not assigned, the stale one is used
classified_stale(e, le, a, retries, p) ==
    LET old == IF le = None THEN e ELSE le IN
    IF a < retries THEN Continue(old, p) ELSE Raise(old, old, p)

\* The pattern of lines 112-115, 122-125, 132-135, 151-154 and 158-161:
\*     last_error = e; if attempt < retries: continue; raise last_error
classified(e, le, a, retries, p) ==
    IF a < retries THEN Continue(e, p) ELSE Raise(e, e, p)

\* The body of the try statement, lines 90-154, on reply r in iteration a.
try_body(r, a, retries, le) ==
    IF r.tag = "timeout" THEN Raise(TimeoutException(a), le, "none")
    ELSE IF r.status # 200 THEN classified(ApiError(r.status, a), le, a, retries, "api_error")
    ELSE IF r.body.shape = "NotJson" THEN Raise(BodyDecodeError(a), le, "none")
    ELSE IF r.body.shape \in {"NoChoices", "NoMessage"}
         THEN classified(InvalidStructure(a), le, a, retries, "invalid_structure")
    ELSE IF r.body.shape = "NoContent" THEN Raise(KeyError(a), le, "none")
    ELSE IF r.body.shape = "NullContent" \/ r.body.content = <<>>
            \/ strip(r.body.content) = <<>>
         THEN classified(EmptyResponse(a), le, a, retries, "empty")
    ELSE LET d == json_loads(r.body.content) IN
         IF d.st = "ok" THEN Return(d.value, le, "none")
         ELSE IF d.st = "RecursionError" THEN Raise(RecursionError(a), le, "none")
         ELSE \* except json.JSONDecodeError, lines 140-154
              LET m == re_search(r.body.content)
                  d2 == IF m.found THEN json_loads(m.group) ELSE [st |-> "nomatch"]
              IN  IF d2.st = "ok" THEN Return(d2.value, le, "json_parse_error")
                  ELSE classified(ParseFailure(a), le, a, retries, "json_parse_error")

\* The except clauses of lines 156-169 on what the try body raised.
handlers(o, a, retries) ==
    IF o.ctl # "raise" THEN o
    ELSE IF o.exc.type = "TimeoutException"
         THEN classified(TimedOut(a), o.last_error, a, retries, "timeout")
    ELSE IF mentions_keyword(o.exc) THEN Raise(o.exc, o.last_error, o.printed)
    ELSE IF a < retries THEN Continue(o.exc, "unexpected")
    ELSE Raise(o.exc, o.exc, "unexpected")

\* One iteration of the loop of lines 88-169.
iteration(r, a, retries, le) == handlers(try_body(r, a, retries, le), a, retries)

(***************************************************************************)
(* The class of a reply in the words of the specification (history only):  *)
(* decided by the JSON grammar alone, not by what the code does with it.   *)
(***************************************************************************)
IsJson(s) == decode(s, Len(s) + 1).st = "ok"

ClassOf(r) ==
    IF r.tag = "timeout" THEN [class |-> "timeout", value |-> NoValue]
    ELSE IF r.status # 200 THEN [class |-> "status", value |-> NoValue]
    ELSE IF r.body.shape \in {"NotJson", "NoChoices", "NoMessage", "NoContent"}
         THEN [class |-> "envelope", value |-> NoValue]
    ELSE IF r.body.shape = "NullContent" \/ \A i \in 1..Len(r.body.content) : r.body.content[i] = " "
         THEN [class |-> "empty", value |-> NoValue]
    ELSE IF IsJson(r.body.content)
         THEN [class |-> "json", value |-> PyValue(r.body.content)]
    ELSE IF re_search(r.body.content).found /\ IsJson(re_search(r.body.content).group)
         THEN [class |-> "salvageable", value |-> PyValue(re_search(r.body.content).group)]
    ELSE [class |-> "badjson", value |-> NoValue]

FailureClasses == {"timeout", "status", "envelope", "empty", "badjson"}

(***************************************************************************)
(* call_openrouter as a state machine.                                     *)
(***************************************************************************)
\* the call is made: line 86
Call(retries) ==
    /\ cstate = "idle"
    /\ cstate' = "running"
    /\ c_retries' = retries
    /\ attempt' = 0
    /\ last_error' = None
    /\ UNCHANGED <<posts, ret, exc, printed, lastReply, priorBad>>

\* one iteration: the POST, its reply, and what the code does with it
Attempt(r) ==
    /\ cstate = "running"
    /\ LET o == iteration(r, attempt, c_retries, last_error) IN
        /\ posts' = posts + 1
        /\ lastReply' = ClassOf(r)
        /\ priorBad' = (priorBad /\ (posts = 0 \/ lastReply.class = "badjson"))
        /\ printed' = o.printed
        /\ last_error' = o.last_error
        /\ ret' = o.value
        /\ IF o.ctl = "return" THEN
                cstate' = "returned" /\ exc' = None /\ attempt' = attempt
           ELSE IF o.ctl = "raise" THEN
                cstate' = "raised" /\ exc' = o.exc /\ attempt' = attempt
           ELSE IF attempt + 1 <= c_retries THEN
                cstate' = "running" /\ exc' = None /\ attempt' = attempt + 1
           ELSE \* the loop is over: line 171
                /\ cstate' = "raised"
                /\ exc' = (IF o.last_error = None THEN UnknownError ELSE o.last_error)
                /\ attempt' = attempt
    /\ UNCHANGED c_retries

(***************************************************************************)
(* build_file_content.  File data is a sequence over ByteAlphabet: "a" and *)
(* " " are ASCII bytes, "C3" "A9" is a two-byte UTF-8 sequence (the lead   *)
(* byte must be followed by the continuation byte), "FF" is a byte that no *)
(* UTF-8 text holds, and "PK" stands for the header of a well-formed DOCX  *)
(* package.                                                                *)
(***************************************************************************)
\* longest file explored by the content builder, in bytes
MaxBytes == 3

ByteAlphabet == {"a", " ", "C3", "A9", "FF", "PK"}

ByteStrings == UNION {[1..k -> ByteAlphabet] : k \in 0..MaxBytes}

PDF_MODEL == "anthropic/claude-sonnet-4"
TEXT_MODEL == "openai/gpt-4o"

AllowedTypes == {"pdf", "docx", "doc", "png", "jpg", "jpeg", "gif", "webp", "txt", "md", "csv"}

\* str.lower() on the tags the model uses
lower(t) ==
    CASE t = "PDF" -> "pdf"
      [] t = "DOCX" -> "docx"
      [] t = "TXT" -> "txt"
      [] t = "P" -> "p"
      [] t = "D" -> "d"
      [] t = "F" -> "f"
      [] OTHER -> t

\* bytes.decode("utf-8"): the text, or UnicodeDecodeError
RECURSIVE utf8_decode(_)
utf8_decode(b) ==
    IF b = <<>> THEN [ok |-> TRUE, text |-> <<>>]
    ELSE IF b[1] \in {"FF", "A9"} THEN [ok |-> FALSE, text |-> <<>>]
    ELSE IF b[1] = "C3" THEN
        IF Len(b) >= 2 /\ b[2] = "A9"
        THEN LET r == utf8_decode(SubSeq(b, 3, Len(b))) IN
             [ok |-> r.ok, text |-> IF r.ok THEN <<"e'">> \o r.text ELSE <<>>]
        ELSE [ok |-> FALSE, text |-> <<>>]
    ELSE LET r == utf8_decode(Tail(b)) IN
         [ok |-> r.ok, text |-> IF r.ok THEN <<b[1]>> \o r.text ELSE <<>>]

\* the character budget of line 60
DocxBudget == 50000

\* mutation of extract_text_from_docx: the bytes are a stream that the first
\* call has consumed
extract_text_from_docx_consumed(file_data) ==
    IF b_out # [raised |-> FALSE, content |-> <<>>, model |-> "not called"] THEN <<>>
    ELSE IF file_data = <<>> \/ file_data[1] # "PK" THEN <<>>
    ELSE LET body == utf8_decode(Tail(file_data)) IN
         IF ~body.ok THEN <<>>
         ELSE IF strip(body.text) = <<>> THEN <<>>
         ELSE body.text

\* extract_text_from_docx: Document() raises on anything but a well-formed
\* package; the paragraphs whose text is not blank are kept; every
\* exception is caught and gives "".
extract_text_from_docx(file_data) ==
    IF file_data = <<>> \/ file_data[1] # "PK" THEN <<>>
    ELSE LET body == utf8_decode(Tail(file_data)) IN
         IF ~body.ok THEN <<>>
         ELSE IF strip(body.text) = <<>> THEN <<>>
         ELSE body.text

get_mime_type(file_type) ==
    CASE lower(file_type) = "pdf" -> "application/pdf"
      [] lower(file_type) = "docx" -> "application/vnd.openxmlformats-officedocument.wordprocessingml.document"
      [] lower(file_type) = "doc" -> "application/msword"
      [] lower(file_type) = "png" -> "image/png"
      [] lower(file_type) \in {"jpg", "jpeg"} -> "image/jpeg"
      [] lower(file_type) = "gif" -> "image/gif"
      [] lower(file_type) = "webp" -> "image/webp"
      [] lower(file_type) = "txt" -> "text/plain"
      [] lower(file_type) = "csv" -> "text/csv"
      [] lower(file_type) = "md" -> "text/markdown"
      [] OTHER -> "application/octet-stream"

\* base64.b64encode(file_data).decode("utf-8"): total on bytes
b64encode(file_data) == [base64 |-> file_data]

TextPart(text) == [type |-> "text", text |-> text, data |-> NULL]
DataPart(type, mime, file_data) ==
    [type |-> type, text |-> <<>>, data |-> [mime |-> mime, b64 |-> b64encode(file_data)]]

Built(content, model) == [raised |-> FALSE, content |-> content, model |-> model]
BuildRaised == [raised |-> TRUE, content |-> <<>>, model |-> "none"]

\* mutation of decode_text: the decode is not guarded
decode_text_unguarded(file_data, filename) ==
    LET d == utf8_decode(file_data) IN
    IF d.ok
    THEN Built(<<TextPart(<<"Analyze this document:", "Filename:", filename, "Content:">> \o d.text)>>,
               TEXT_MODEL)
    ELSE BuildRaised

\* mutation of decode_text: the text is sent to the model of the PDFs
decode_text_pdf_model(file_data, filename) ==
    LET d == utf8_decode(file_data) IN
    IF d.ok
    THEN Built(<<TextPart(<<"Analyze this document:", "Filename:", filename, "Content:">> \o d.text)>>,
               PDF_MODEL)
    ELSE Built(<<TextPart(<<"Unable to read file:", filename>>)>>, TEXT_MODEL)

\* lines 77-82: the text-like types
decode_text(file_data, filename) ==
    LET d == utf8_decode(file_data) IN
    IF d.ok
    THEN Built(<<TextPart(<<"Analyze this document:", "Filename:", filename, "Content:">> \o d.text)>>,
               TEXT_MODEL)
    ELSE Built(<<TextPart(<<"Unable to read file:", filename>>)>>, TEXT_MODEL)

build_file_content(file_data, filename, file_type) ==
    IF lower(file_type) \in {"docx", "doc"} THEN
        LET text_content == extract_text_from_docx(file_data) IN
        IF text_content # <<>>
        THEN Built(<<TextPart(<<"Analyze this document:", "Filename:", filename, "Content:">>
                              \o SubSeq(text_content, 1,
                                        IF Len(text_content) < DocxBudget
                                        THEN Len(text_content) ELSE DocxBudget))>>,
                   TEXT_MODEL)
        ELSE Built(<<TextPart(<<"Unable to extract text from:", filename>>)>>, TEXT_MODEL)
    ELSE IF lower(file_type) \in {"png", "jpg", "jpeg", "gif", "webp"} THEN
        Built(<<TextPart(<<"Analyze this image:", filename>>),
                DataPart("image_url", get_mime_type(file_type), file_data)>>, TEXT_MODEL)
    ELSE IF lower(file_type) = "pdf" THEN
        Built(<<TextPart(<<"Analyze this document:", filename>>),
                DataPart("file", get_mime_type(file_type), file_data)>>, PDF_MODEL)
    ELSE decode_text(file_data, filename)

NoArgs == [file_data |-> <<>>, filename |-> "", file_type |-> ""]
NotCalled == [raised |-> FALSE, content |-> <<>>, model |-> "not called"]

FileTypes == AllowedTypes \cup {"PDF", "DOCX", "TXT", "bin"}
Filenames == {"report", ""}

\* the call build_file_content(file_data, filename, file_type)
Build ==
    /\ b_out = NotCalled
    /\ b_out' = build_file_content(b_in.file_data, b_in.filename, b_in.file_type)
    /\ UNCHANGED <<b_in, b_again>>

\* a second call of build_file_content, with the arguments of the first
BuildAgain ==
    /\ b_out # NotCalled
    /\ b_again = NotCalled
    /\ b_again' = build_file_content(b_in.file_data, b_in.filename, b_in.file_type)
    /\ UNCHANGED <<b_in, b_out>>

(***************************************************************************)
(* openrouter_service.analyze_document: the choice of the template         *)
(* function.  A call of a template function is recorded by its name and    *)
(* its arguments; kwargs is a function from the keywords given to their    *)
(* values.                                                                 *)
(***************************************************************************)
\* dict.get(key, default)
kwargs_get(kwargs, key, default) == IF key \in DOMAIN kwargs THEN kwargs[key] ELSE default

\* a call of a template function
Invoke(fn, file, extra) == [fn |-> fn, file |-> file, extra |-> extra]

\* mutation of analyze_document: "upgrade" is not recognised
analyze_document_unlisted(file, analysis_type, kwargs) ==
    IF analysis_type = "summarize" THEN <<Invoke("analyze_summarize", file, <<>>)>>
    ELSE IF analysis_type = "pros_cons" THEN <<Invoke("analyze_pros_cons", file, <<>>)>>
    ELSE IF analysis_type = "gaps_risks" THEN <<Invoke("analyze_gaps_risks", file, <<>>)>>
    ELSE IF analysis_type = "qa" THEN
        <<Invoke("analyze_qa", file, <<kwargs_get(kwargs, "question", "What is this document about?")>>)>>
    ELSE IF analysis_type = "chart" THEN
        <<Invoke("generate_chart_data", file, <<kwargs_get(kwargs, "chart_type", "bar")>>)>>
    ELSE IF analysis_type = "report" THEN <<Invoke("generate_report", file, <<>>)>>
    ELSE IF analysis_type = "slides" THEN <<Invoke("generate_slides", file, <<>>)>>
    ELSE <<Invoke("analyze_summarize", file, <<>>)>>

\* lines 561-582: the template functions invoked, in order
analyze_document(file, analysis_type, kwargs) ==
    IF analysis_type = "summarize" THEN <<Invoke("analyze_summarize", file, <<>>)>>
    ELSE IF analysis_type = "pros_cons" THEN <<Invoke("analyze_pros_cons", file, <<>>)>>
    ELSE IF analysis_type = "gaps_risks" THEN <<Invoke("analyze_gaps_risks", file, <<>>)>>
    ELSE IF analysis_type = "upgrade" THEN <<Invoke("analyze_upgrade_suggestions", file, <<>>)>>
    ELSE IF analysis_type = "qa" THEN
        <<Invoke("analyze_qa", file, <<kwargs_get(kwargs, "question", "What is this document about?")>>)>>
    ELSE IF analysis_type = "chart" THEN
        <<Invoke("generate_chart_data", file, <<kwargs_get(kwargs, "chart_type", "bar")>>)>>
    ELSE IF analysis_type = "report" THEN <<Invoke("generate_report", file, <<>>)>>
    ELSE IF analysis_type = "slides" THEN <<Invoke("generate_slides", file, <<>>)>>
    ELSE <<Invoke("analyze_summarize", file, <<>>)>>

\* the tags given: the eight of the chain, and others (a tag is compared as
\* it is, neither trimmed nor lower-cased)
AnalysisTags ==
    {"summarize", "pros_cons", "gaps_risks", "upgrade", "qa", "chart", "report", "slides",
     "", "Summarize", "summary", "QA", "pros-cons", "compare"}

\* the keyword arguments given: question and chart_type, each given or not
KwargsGiven ==
    UNION {[keys -> {"Why?", "pie"}] : keys \in SUBSET {"question", "chart_type"}}

NoAnalysis == [file |-> NoArgs, analysis_type |-> "", kwargs |-> <<>>]
NotAnalyzed == <<Invoke("not called", NoArgs, <<>>)>>

\* the call analyze_document(**file, analysis_type, **kwargs)
Analyze ==
    /\ a_out = NotAnalyzed
    /\ a_out' = analyze_document(a_in.file, a_in.analysis_type, a_in.kwargs)
    /\ UNCHANGED a_in

(***************************************************************************)
(* POST /analyze down to call_openrouter: the request model fills in the   *)
(* fields the body omits, the handler passes the fields on as keyword      *)
(* arguments, analyze_document picks the template function, and the        *)
(* template function builds the content and hands it to call_openrouter.   *)
(***************************************************************************)
\* Python's None among the values of a request (no string given equals it)
NoneArg == "<None>"

\* class AnalysisRequest, main.py lines 69-73: the fields of the body, and
\* the defaults of those it omits
AnalysisRequest(document, fields) ==
    [document |-> document,
     analysis_type |-> kwargs_get(fields, "analysis_type", "summarize"),
     question |-> kwargs_get(fields, "question", NoneArg),
     chart_type |-> kwargs_get(fields, "chart_type", "bar")]

\* main.py lines 263-270: question= and chart_type= are always passed
handler_kwargs(request) == [question |-> request.question, chart_type |-> request.chart_type]

\* an f-string field: str(None) is "None"
format(value) == IF value = NoneArg THEN "None" ELSE value

\* a template function: content, model = build_file_content(...), then
\* call_openrouter(prompt, content, model).  analyze_qa assigns
\* content[0]["text"] in between (line 261); the others pass the content on
template_call(call) ==
    LET built == build_file_content(call.file.file_data, call.file.filename, call.file.file_type) IN
    [fn |-> call.fn, model |-> built.model,
     content |-> IF call.fn = "analyze_qa"
                 THEN [built.content EXCEPT ![1] =
                          TextPart(<<"Document:", call.file.filename,
                                     "Question:", format(call.extra[1])>>)]
                 ELSE built.content]

\* main.py lines 256-270 and openrouter_service.analyze_document: the calls
\* of call_openrouter a request leads to
analyze_request_sent(request) ==
    LET invoked == analyze_document(request.document, request.analysis_type, handler_kwargs(request))
    IN  [i \in 1..Len(invoked) |-> template_call(invoked[i])]

\* the bodies posted: each field given or omitted; the question also as null
RequestFields ==
    UNION {[keys -> AnalysisTags \cup {NoneArg, "Why?", "pie"}] :
               keys \in SUBSET {"analysis_type", "question", "chart_type"}}

RequestBodies ==
    {f \in RequestFields :
        /\ ("analysis_type" \in DOMAIN f => f["analysis_type"] \in AnalysisTags)
        /\ ("question" \in DOMAIN f => f["question"] \in {NoneArg, "Why?"})
        /\ ("chart_type" \in DOMAIN f => f["chart_type"] = "pie")}

\* the stored documents analysed: empty, text, a DOCX package with text, and
\* bytes that are not UTF-8, under every file type
StoredFiles ==
    [file_data : {<<>>, <<"a">>, <<"PK", "a">>, <<"FF">>}, filename : {"report"}, file_type : FileTypes]

NoRequest == [document |-> NoArgs, analysis_type |-> "", question |-> "", chart_type |-> ""]
NotSent == <<>>

\* POST /analyze, from the request to the call of call_openrouter
Send ==
    /\ q_out = NotSent
    /\ q_out' = analyze_request_sent(q_in)
    /\ UNCHANGED q_in

(***************************************************************************)
(* The connections of database.py.  get_connection borrows a connection    *)
(* from the pool of get_pool; every operation is                           *)
(*   conn = get_connection(); cursor = conn.cursor(); cursor.execute(...); *)
(*   conn.commit(); cursor.close(); conn.close()                           *)
(* straight down, with no try/finally and no with-block: conn.close() is   *)
(* what gives a pooled connection back, and an exception of execute or     *)
(* commit leaves the function before it.  The operations are synchronous,  *)
(* so one runs at a time.                                                  *)
(***************************************************************************)
\* operations run in one behaviour
MaxOperations == 4

\* pooling.MySQLConnectionPool(pool_name="pool", pool_size=3, ...)
pool_size == 3

\* the operations of the gateway
GatewayOperations ==
    {"create_workspace", "get_workspaces", "get_workspace", "update_workspace", "delete_workspace",
     "assign_all_documents_to_workspace", "save_document", "get_document", "get_all_documents",
     "get_documents_by_workspace", "delete_document", "update_document_suggestions",
     "update_document_workspace", "save_analysis", "get_analysis_by_document", "save_comparison",
     "get_comparisons", "save_decision_matrix", "get_decision_matrices", "save_chart",
     "get_charts_by_document", "save_qa", "get_qa_history"}

NoOperation == [n |-> 0, op |-> "none", ended |-> "none", error |-> "none"]

\* pool.get_connection(): PoolError when every connection is checked out
get_connection_ok == checked_out < pool_size

\* one operation, from get_connection to its return or its exception;
\* statement_ok: execute and commit went through
gateway_operation(op, statement_ok) ==
    /\ g_last.n < MaxOperations
    /\ IF ~get_connection_ok THEN
            /\ UNCHANGED checked_out
            /\ g_last' = [n |-> g_last.n + 1, op |-> op, ended |-> "raised", error |-> "PoolError"]
       ELSE IF statement_ok THEN
            \* conn.close() is reached: borrowed and given back
            /\ checked_out' = (checked_out + 1) - 1
            /\ g_last' = [n |-> g_last.n + 1, op |-> op, ended |-> "returned", error |-> "none"]
       ELSE \* the exception leaves the function with the connection borrowed
            /\ checked_out' = checked_out + 1
            /\ g_last' = [n |-> g_last.n + 1, op |-> op, ended |-> "raised", error |-> "statement"]

(***************************************************************************)
(* The service: the handlers of backend/main.py over the tables created by *)
(* init_database.  A handler that awaits the upstream call is two steps,   *)
(* the one up to the await and the one after it; other requests may run in *)
(* between.  Every SQL statement may fail (parameter ok = FALSE: the store *)
(* is unreachable or refuses the statement), and an INSERT fails when a    *)
(* foreign key names a missing row.                                        *)
(***************************************************************************)
\* requests received in one behaviour
MaxRequests == 4
MaxWideRequests == 2

\* the None of an optional id (ids start at 1)
NoId == 0
\* SQL NULL in a text or JSON column
SqlNull == <<>>

\* main.py line 172
MaxUploadBytes == 15 * 1024 * 1024

\* main.py line 162, as character sequences
allowed_types ==
    {<<"p", "d", "f">>, <<"d", "o", "c", "x">>, <<"d", "o", "c">>, <<"p", "n", "g">>,
     <<"j", "p", "g">>, <<"j", "p", "e", "g">>, <<"g", "i", "f">>, <<"w", "e", "b", "p">>,
     <<"t", "x", "t">>, <<"m", "d">>, <<"c", "s", "v">>}

\* the filenames uploaded: a.txt, a.PDF, a.exe, a.txt.exe, a.exe.md, "txt"
\* (no dot) and no filename at all
UploadNames ==
    {<<"a", ".", "t", "x", "t">>, <<"a", ".", "P", "D", "F">>, <<"a", ".", "e", "x", "e">>,
     <<"a", ".", "t", "x", "t", ".", "e", "x", "e">>, <<"a", ".", "e", "x", "e", ".", "m", "d">>,
     <<"t", "x", "t">>, <<>>}

\* the uploads: every filename with 10 bytes, and the sizes at the limit of
\* line 172 and one byte above it, with an accepted and a refused filename
Uploads ==
    [filename : UploadNames, size : {10}]
    \cup [filename : {<<"a", ".", "t", "x", "t">>, <<"a", ".", "e", "x", "e">>},
          size : {MaxUploadBytes, MaxUploadBytes + 1}]

\* the ids a request may name
RefIds == 1..2
IdLists == {<<>>, <<1>>, <<1, 1>>, <<1, 2>>}

\* a criterion without a weight: c.get("weight", 0)
NoWeight == 0 - 1

\* criteria, by their weights in hundredths: sums of 1.0, 1.1, 0.99, 1.01,
\* 0.98 and 1.02, and a criterion without a weight
CriteriaLists ==
    {<<50, 50>>, <<60, 50>>, <<50, 49>>, <<50, 51>>, <<49, 49>>, <<51, 51>>, <<100, NoWeight>>}

\* the separators of json.dumps: ", " between items and ": " after a key
RECURSIVE separated(_)
separated(t) ==
    IF t = <<>> THEN t
    ELSE IF Head(t) \in {",", ":"} THEN <<Head(t), " ">> \o separated(Tail(t))
    ELSE <<Head(t)>> \o separated(Tail(t))

\* json.dumps of a value
json_dumps(v) == separated(v.json)

\* the tokens of the items of a list or of the members of a dict, with the
\* commas between them
RECURSIVE joined(_)
joined(parts) ==
    IF parts = <<>> THEN <<>>
    ELSE IF Len(parts) = 1 THEN parts[1]
    ELSE parts[1] \o <<",">> \o joined(Tail(parts))

\* Python values built by the handlers, as the parsed values are: the type
\* and the tokens.  A list of ints; a str; a dict given by its members; a list
PyInt(n) == <<ToString(n)>>
PyStr(chars) == <<"\"">> \o chars \o <<"\"">>
PyMember(key, tokens) == <<"\"", key, "\"", ":">> \o tokens
PyDict(members) == [py |-> "dict", json |-> <<"{">> \o joined(members) \o <<"}">>]
PyList(items) == [py |-> "list", json |-> <<"[">> \o joined(items) \o <<"]">>]

\* request.document_ids: List[int]
PyIds(document_ids) == PyList([i \in 1..Len(document_ids) |-> PyInt(document_ids[i])])

\* request.criteria: List[dict], each with its weight (in hundredths) or
\* without one
PyCriteria(criteria) ==
    PyList([i \in 1..Len(criteria) |->
               IF criteria[i] = NoWeight THEN PyDict(<<>>).json
               ELSE PyDict(<<PyMember("weight", PyInt(criteria[i]))>>).json])

\* [{"id": d["id"], "name": d["name"]} for d in documents]
PyOptions(options) ==
    PyList([i \in 1..Len(options) |->
               PyDict(<<PyMember("id", PyInt(options[i].id)),
                        PyMember("name", PyStr(options[i].name))>>).json])

\* Python's None, as a parsed value
PyNone == [py |-> "None", json |-> <<"n">>]

\* what the upstream call gives a handler: a parsed value, here {"answer": 1},
\* or an exception
Outcomes == {[ok |-> FALSE, value |-> NoValue, message |-> "API Error: 500"],
             [ok |-> FALSE, value |-> NoValue, message |-> "Failed after 3 attempts"],
             [ok |-> TRUE, value |-> PyDict(<<PyMember("answer", PyInt(1))>>), message |-> ""]}

\* str.lower() of a character sequence
str_lower(s) == [i \in 1..Len(s) |-> lower(s[i])]

\* filename.split(".")[-1].lower() if "." in filename else ""
extension(filename) ==
    LET dots == {i \in 1..Len(filename) : filename[i] = "."} IN
    IF dots = {} THEN <<>>
    ELSE LET last == CHOOSE i \in dots : \A k \in dots : k <= i IN
         str_lower(SubSeq(filename, last + 1, Len(filename)))

\* the two routines that create the tables; each is CREATE TABLE IF NOT
\* EXISTS, so the one that ran first on the database decides their shape
Schemas == {"init_database", "init_tables"}

\* the tables of init_database declare their foreign keys; those of
\* init_tables declare none
foreign_keys == schema = "init_database"

\* comparisons, decision_matrices and qa_history have a workspace_id column
\* in init_database only
workspace_column == schema = "init_database"

\* a foreign key to workspaces(id) accepts NULL or an existing row
workspace_fk(workspace_id) ==
    foreign_keys => (workspace_id = NoId \/ workspace_id \in DOMAIN workspaces)

\* a foreign key to documents(id) accepts an existing row
document_fk(document_id) == foreign_keys => document_id \in DOMAIN documents

Sum(ws) == IF ws = <<>> THEN 0 ELSE
           LET RECURSIVE S(_)
               S(i) == IF i = 0 THEN 0 ELSE ws[i] + S(i - 1)
           IN S(Len(ws))

CanAccept == nextId.request <= MaxRequests

\* the longer runs start an upstream call when no request waits for one
Free == pending = {}

\* the shorter runs, which take every input
Wide == nextId.request <= MaxWideRequests

\* the detail of an HTTPException, when the handler raises none that is modelled
NoDetail == [kind |-> "none"]

\* HTTPException(status_code=500, detail=str(e)): e is the exception of the
\* upstream call, or else that of the INSERT that followed it
failure_detail(outcome) ==
    [kind |-> "exception", message |-> IF outcome.ok THEN "database" ELSE outcome.message]

\* the step taken: request rid, handler op, its input, the HTTP status (0: no
\* response yet), and the difference the step made
Event(rid, op, req, status, suggestions, lookups, detail) ==
    [rid |-> rid, op |-> op, req |-> req, status |-> status, suggestions |-> suggestions,
     lookups |-> lookups, detail |-> detail,
     addedDocs |-> (DOMAIN documents') \ (DOMAIN documents),
     removedDocs |-> (DOMAIN documents) \ (DOMAIN documents'),
     changedDocs |-> {d \in (DOMAIN documents) \cap (DOMAIN documents') : documents'[d] # documents[d]},
     addedRows |-> (Len(comparisons') - Len(comparisons)) + (Len(matrices') - Len(matrices))
                   + (Len(qa_history') - Len(qa_history))
                   + Cardinality((DOMAIN analyses') \ (DOMAIN analyses))
                   + Cardinality((DOMAIN charts') \ (DOMAIN charts)),
     changedRows |-> Cardinality({r \in (DOMAIN qa_history) \cap (DOMAIN qa_history') :
                                      qa_history'[r] # qa_history[r]}),
     calls |-> upstream' - upstream]

Received == nextId' = [nextId EXCEPT !.request = @ + 1]

\* ---- workspaces ----
\* POST /workspaces -> database.create_workspace
create_workspace(ok) ==
    /\ CanAccept
    /\ IF ok
       THEN /\ workspaces' = workspaces @@ (nextId.workspaces :> [name |-> "w", description |-> SqlNull])
            /\ nextId' = [nextId EXCEPT !.request = @ + 1, !.workspaces = @ + 1]
       ELSE UNCHANGED workspaces /\ Received
    /\ UNCHANGED <<documents, comparisons, matrices, pending, upstream>>
    /\ UNCHANGED <<analyses, charts, qa_history, schema>>
    /\ event' = Event(nextId.request, "create_workspace", [none |-> TRUE], IF ok THEN 200 ELSE 500, SqlNull, 0, NoDetail)

\* ON DELETE SET NULL of a workspace_id column, where the key is declared
set_null(table, workspace_id) ==
    [r \in DOMAIN table |->
        IF foreign_keys /\ table[r].workspace_id = workspace_id
        THEN [table[r] EXCEPT !.workspace_id = NoId] ELSE table[r]]

\* DELETE /workspaces/{id} -> database.delete_workspace
delete_workspace(workspace_id, ok) ==
    /\ CanAccept
    /\ Received
    /\ IF ok
       THEN /\ workspaces' = [w \in (DOMAIN workspaces) \ {workspace_id} |-> workspaces[w]]
            /\ documents' = set_null(documents, workspace_id)
            /\ comparisons' = set_null(comparisons, workspace_id)
            /\ matrices' = set_null(matrices, workspace_id)
            /\ qa_history' = set_null(qa_history, workspace_id)
       ELSE UNCHANGED <<workspaces, documents, comparisons, matrices, qa_history>>
    /\ UNCHANGED <<analyses, charts, schema, pending, upstream>>
    /\ event' = Event(nextId.request, "delete_workspace", [workspace_id |-> workspace_id],
                      IF ok THEN 200 ELSE 500, SqlNull, 0, NoDetail)

\* ---- documents ----
\* mutation of upload_response: the extension is returned as it was typed
upload_response_raw(file) ==
    LET filename == IF file.filename = <<>> THEN <<"u", "n", "k", "n", "o", "w", "n">> ELSE file.filename
        dots == {i \in 1..Len(filename) : filename[i] = "."}
        last == CHOOSE i \in dots : \A k \in dots : k <= i
    IN  [kind |-> "body", filename |-> filename,
         file_type |-> IF dots = {} THEN <<>> ELSE SubSeq(filename, last + 1, Len(filename)),
         file_size |-> file.size]

\* lines 190-197: the body of the response, but for the id, the workspace and
\* the suggestions
upload_response(file) ==
    LET filename == IF file.filename = <<>> THEN <<"u", "n", "k", "n", "o", "w", "n">> ELSE file.filename
    IN  [kind |-> "body", filename |-> filename, file_type |-> extension(filename),
         file_size |-> file.size]

\* database.save_document: the INSERT succeeds or raises
save_document_ok(workspace_id, ok) == ok /\ workspace_fk(workspace_id)

\* mutation of upload_document: the size check of line 172 is exclusive
upload_document_exclusive(file, workspace_id, auto_analyze, ok) ==
    LET filename == IF file.filename = <<>> THEN <<"u", "n", "k", "n", "o", "w", "n">> ELSE file.filename
        file_ext == extension(filename)
        req == [file |-> file, workspace_id |-> workspace_id, auto_analyze |-> auto_analyze,
                insert_ok |-> save_document_ok(workspace_id, ok)]
        rid == nextId.request
    IN  /\ CanAccept
        /\ UNCHANGED <<workspaces, comparisons, matrices>>
        /\ UNCHANGED <<analyses, charts, qa_history, schema>>
        /\ IF file_ext \notin allowed_types \/ file.size >= MaxUploadBytes THEN
                /\ Received
                /\ UNCHANGED <<documents, pending, upstream>>
                /\ event' = Event(rid, "upload", req, 400, SqlNull, 0, NoDetail)
           ELSE IF ~save_document_ok(workspace_id, ok) THEN
                /\ Received
                /\ UNCHANGED <<documents, pending, upstream>>
                /\ event' = Event(rid, "upload", req, 500, SqlNull, 0, NoDetail)
           ELSE /\ documents' = documents @@ (nextId.documents :>
                        [filename |-> filename, file_type |-> file_ext, file_size |-> file.size,
                         file_data |-> [len |-> file.size], suggestions |-> SqlNull,
                         workspace_id |-> workspace_id])
                /\ nextId' = [nextId EXCEPT !.request = @ + 1, !.documents = @ + 1]
                /\ IF auto_analyze
                   THEN /\ pending' = pending \cup {[rid |-> rid, op |-> "upload", req |-> req,
                                                     doc_id |-> nextId.documents,
                                                     options |-> <<>>]}
                        /\ upstream' = upstream + 1
                        /\ event' = Event(rid, "upload", req, 0, SqlNull, 0, NoDetail)
                   ELSE /\ UNCHANGED <<pending, upstream>>
                        /\ event' = Event(rid, "upload", req, 200, SqlNull, 0, upload_response(file))

\* POST /upload, lines 155-183: up to the await of get_analysis_suggestions,
\* or to the response when there is none
upload_document(file, workspace_id, auto_analyze, ok) ==
    LET filename == IF file.filename = <<>> THEN <<"u", "n", "k", "n", "o", "w", "n">> ELSE file.filename
        file_ext == extension(filename)
        req == [file |-> file, workspace_id |-> workspace_id, auto_analyze |-> auto_analyze,
                insert_ok |-> save_document_ok(workspace_id, ok)]
        rid == nextId.request
    IN  /\ CanAccept
        /\ UNCHANGED <<workspaces, comparisons, matrices>>
        /\ UNCHANGED <<analyses, charts, qa_history, schema>>
        /\ IF file_ext \notin allowed_types \/ file.size > MaxUploadBytes THEN
                /\ Received
                /\ UNCHANGED <<documents, pending, upstream>>
                /\ event' = Event(rid, "upload", req, 400, SqlNull, 0, NoDetail)
           ELSE IF ~save_document_ok(workspace_id, ok) THEN
                \* the exception of save_document leaves the handler: a 500
                /\ Received
                /\ UNCHANGED <<documents, pending, upstream>>
                /\ event' = Event(rid, "upload", req, 500, SqlNull, 0, NoDetail)
           ELSE /\ documents' = documents @@ (nextId.documents :>
                        [filename |-> filename, file_type |-> file_ext, file_size |-> file.size,
                         file_data |-> [len |-> file.size], suggestions |-> SqlNull,
                         workspace_id |-> workspace_id])
                /\ nextId' = [nextId EXCEPT !.request = @ + 1, !.documents = @ + 1]
                /\ IF auto_analyze
                   THEN /\ pending' = pending \cup {[rid |-> rid, op |-> "upload", req |-> req,
                                                     doc_id |-> nextId.documents,
                                                     options |-> <<>>]}
                        /\ upstream' = upstream + 1
                        /\ event' = Event(rid, "upload", req, 0, SqlNull, 0, NoDetail)
                   ELSE /\ UNCHANGED <<pending, upstream>>
                        /\ event' = Event(rid, "upload", req, 200, SqlNull, 0, upload_response(file))

\* the input of the second step of a handler: its request, what the upstream
\* call gave, and whether the store takes the statement that follows
Resumed(p, outcome, ok) ==
    [request |-> p.req, doc_id |-> p.doc_id, options |-> p.options, outcome |-> outcome.ok,
     value |-> outcome.value, message |-> outcome.message, ok |-> ok]

\* mutation of update_document_suggestions: the UPDATE also sets file_type
update_document_suggestions_retyping(doc_id, suggestions) ==
    [d \in DOMAIN documents |->
        IF d = doc_id THEN [documents[d] EXCEPT !.suggestions = suggestions, !.file_type = <<>>]
        ELSE documents[d]]

\* database.update_document_suggestions: UPDATE ... WHERE id = doc_id
update_document_suggestions(doc_id, suggestions) ==
    [d \in DOMAIN documents |->
        IF d = doc_id THEN [documents[d] EXCEPT !.suggestions = suggestions] ELSE documents[d]]

\* mutation of upload_resume: the failure of the suggestions step is not
\* caught, and the handler gives up the document it saved
upload_resume_uncaught(p, outcome, ok) ==
    /\ p \in pending /\ p.op = "upload"
    /\ pending' = pending \ {p}
    /\ UNCHANGED <<workspaces, comparisons, matrices, nextId, upstream>>
    /\ UNCHANGED <<analyses, charts, qa_history, schema>>
    /\ IF outcome.ok /\ ok
       THEN /\ documents' = update_document_suggestions(p.doc_id, json_dumps(outcome.value))
            /\ event' = Event(p.rid, "upload_resume", Resumed(p, outcome, ok), 200, json_dumps(outcome.value), 0,
                              upload_response(p.req.file))
       ELSE /\ documents' = [d \in (DOMAIN documents) \ {p.doc_id} |-> documents[d]]
            /\ event' = Event(p.rid, "upload_resume", Resumed(p, outcome, ok), 500, SqlNull, 0, NoDetail)

\* POST /upload, lines 183-197: from the return of get_analysis_suggestions
\* (a value or an exception) to the response
upload_resume(p, outcome, ok) ==
    /\ p \in pending /\ p.op = "upload"
    /\ pending' = pending \ {p}
    /\ UNCHANGED <<workspaces, comparisons, matrices, nextId, upstream>>
    /\ UNCHANGED <<analyses, charts, qa_history, schema>>
    /\ IF outcome.ok
       THEN /\ documents' = (IF ok THEN update_document_suggestions(p.doc_id, json_dumps(outcome.value))
                             ELSE documents)
            /\ event' = Event(p.rid, "upload_resume", Resumed(p, outcome, ok), 200, json_dumps(outcome.value), 0,
                              upload_response(p.req.file))
       ELSE /\ UNCHANGED documents
            /\ event' = Event(p.rid, "upload_resume", Resumed(p, outcome, ok), 200, SqlNull, 0,
                              upload_response(p.req.file))

\* mutation of cascade: the rows of every document go
cascade_all(table, doc_id) ==
    [r \in {x \in DOMAIN table : ~foreign_keys} |-> table[r]]

\* ON DELETE CASCADE of a document_id column, where the key is declared
cascade(table, doc_id) ==
    [r \in {x \in DOMAIN table : ~(foreign_keys /\ table[x].document_id = doc_id)} |-> table[r]]

\* mutation of delete_document: the comparisons go with the document
delete_document_purging(doc_id, ok) ==
    /\ CanAccept
    /\ Received
    /\ IF ok
       THEN /\ documents' = [d \in (DOMAIN documents) \ {doc_id} |-> documents[d]]
            /\ analyses' = cascade(analyses, doc_id)
            /\ charts' = cascade(charts, doc_id)
            /\ comparisons' = <<>>
       ELSE UNCHANGED <<documents, analyses, charts, comparisons>>
    /\ UNCHANGED <<workspaces, matrices, qa_history, schema, pending, upstream>>
    /\ event' = Event(nextId.request, "delete_document", [doc_id |-> doc_id],
                      IF ok THEN 200 ELSE 500, SqlNull, 0, NoDetail)

\* DELETE /documents/{id} -> database.delete_document
delete_document(doc_id, ok) ==
    /\ CanAccept
    /\ Received
    /\ IF ok
       THEN /\ documents' = [d \in (DOMAIN documents) \ {doc_id} |-> documents[d]]
            /\ analyses' = cascade(analyses, doc_id)
            /\ charts' = cascade(charts, doc_id)
       ELSE UNCHANGED <<documents, analyses, charts>>
    /\ UNCHANGED <<workspaces, comparisons, matrices, qa_history, schema, pending, upstream>>
    /\ event' = Event(nextId.request, "delete_document", [doc_id |-> doc_id],
                      IF ok THEN 200 ELSE 500, SqlNull, 0, NoDetail)

\* ---- comparisons and decision matrices ----
\* the get_document calls of the lookup loop: it stops at the first missing id
missing(document_ids) == {i \in 1..Len(document_ids) : document_ids[i] \notin DOMAIN documents}
lookups_made(document_ids) ==
    IF missing(document_ids) = {} THEN Len(document_ids)
    ELSE CHOOSE i \in missing(document_ids) : \A k \in missing(document_ids) : i <= k

\* mutation of compare_documents: a single document id is let through
compare_documents_single(document_ids, workspace_id, ok) ==
    LET req == [document_ids |-> document_ids, workspace_id |-> workspace_id]
        rid == nextId.request
    IN  /\ CanAccept
        /\ Received
        /\ UNCHANGED <<workspaces, documents, comparisons, matrices>>
        /\ UNCHANGED <<analyses, charts, qa_history, schema>>
        /\ IF Len(document_ids) < 1 THEN
                /\ UNCHANGED <<pending, upstream>>
                /\ event' = Event(rid, "compare", req, 400, SqlNull, 0, NoDetail)
           ELSE IF ~ok THEN
                /\ UNCHANGED <<pending, upstream>>
                /\ event' = Event(rid, "compare", req, 500, SqlNull, 1, NoDetail)
           ELSE IF missing(document_ids) # {} THEN
                /\ UNCHANGED <<pending, upstream>>
                /\ event' = Event(rid, "compare", req, 404, SqlNull, lookups_made(document_ids), NoDetail)
           ELSE /\ pending' = pending \cup {[rid |-> rid, op |-> "compare", req |-> req,
                                             doc_id |-> NoId, options |-> <<>>]}
                /\ upstream' = upstream + 1
                /\ event' = Event(rid, "compare", req, 0, SqlNull, lookups_made(document_ids), NoDetail)

\* POST /compare, lines 306-331: up to the await of the upstream call
compare_documents(document_ids, workspace_id, ok) ==
    LET req == [document_ids |-> document_ids, workspace_id |-> workspace_id]
        rid == nextId.request
    IN  /\ CanAccept
        /\ Received
        /\ UNCHANGED <<workspaces, documents, comparisons, matrices>>
        /\ UNCHANGED <<analyses, charts, qa_history, schema>>
        /\ IF Len(document_ids) < 2 THEN
                /\ UNCHANGED <<pending, upstream>>
                /\ event' = Event(rid, "compare", req, 400, SqlNull, 0, NoDetail)
           ELSE IF ~ok THEN
                \* get_document raised: the exception leaves the handler
                /\ UNCHANGED <<pending, upstream>>
                /\ event' = Event(rid, "compare", req, 500, SqlNull, 1, NoDetail)
           ELSE IF missing(document_ids) # {} THEN
                /\ UNCHANGED <<pending, upstream>>
                /\ event' = Event(rid, "compare", req, 404, SqlNull, lookups_made(document_ids), NoDetail)
           ELSE /\ pending' = pending \cup {[rid |-> rid, op |-> "compare", req |-> req,
                                             doc_id |-> NoId, options |-> <<>>]}
                /\ upstream' = upstream + 1
                /\ event' = Event(rid, "compare", req, 0, SqlNull, lookups_made(document_ids), NoDetail)

\* POST /compare, lines 331-345: from the upstream result to the response
compare_resume(p, outcome, ok) ==
    /\ p \in pending /\ p.op = "compare"
    /\ pending' = pending \ {p}
    /\ UNCHANGED <<workspaces, documents, matrices, nextId, upstream>>
    /\ UNCHANGED <<analyses, charts, qa_history, schema>>
    /\ IF outcome.ok /\ ok /\ workspace_column /\ workspace_fk(p.req.workspace_id)
       THEN /\ comparisons' = Append(comparisons,
                    [workspace_id |-> p.req.workspace_id,
                     document_ids |-> json_dumps(PyIds(p.req.document_ids)),
                     result_json |-> json_dumps(outcome.value)])
            /\ event' = Event(p.rid, "compare_resume", Resumed(p, outcome, ok), 200, SqlNull, 0, NoDetail)
       ELSE /\ UNCHANGED comparisons
            /\ event' = Event(p.rid, "compare_resume", Resumed(p, outcome, ok), 500, SqlNull, 0,
                              failure_detail(outcome))

(***************************************************************************)
(* Python floats (IEEE-754 doubles, round to nearest, ties to even) near   *)
(* the hundredths.  [d |-> d, e |-> e] is the real d/100 + e * U, with the *)
(* unit U = 2^-59 / 25: in this unit d/100 is the integer d * 2^57 and the *)
(* spacing of the doubles of each binade is an integer.  d >= 0.           *)
(***************************************************************************)
\* 2^n modulo m
Pow2Mod(n, m) ==
    LET RECURSIVE P(_)
        P(k) == IF k = 0 THEN 1 % m ELSE (2 * P(k - 1)) % m
    IN  P(n)

\* the spacing of the doubles around d/100 + e * U, in units U
ulp(d, e) ==
    LET binade == IF d >= 200 THEN 6400 ELSE IF d >= 100 THEN 3200
                  ELSE IF d >= 50 THEN 1600 ELSE IF d >= 25 THEN 800
                  ELSE IF d >= 13 THEN 400 ELSE IF d >= 7 THEN 200
                  ELSE IF d >= 4 THEN 100 ELSE IF d >= 2 THEN 50 ELSE 25
    IN  IF d \in {25, 50, 100, 200} /\ e < 0 THEN binade \div 2 ELSE binade

\* the double nearest to the real d/100 + e * U
fl(d, e) ==
    IF d = 0 THEN [d |-> 0, e |-> e]
    ELSE LET M == ulp(d, e)
             R == (((d % (2 * M)) * Pow2Mod(57, 2 * M)) + e + 2 * M) % (2 * M)
             low == R % M
             odd == R \div M = 1
             up == 2 * low > M \/ (2 * low = M /\ odd)
         IN  [d |-> d, e |-> IF up THEN e + (M - low) ELSE e - low]

\* a float literal of whole hundredths, such as 0.49
float(hundredths) == fl(hundredths, 0)

\* x + y
float_add(x, y) == fl(x.d + y.d, x.e + y.e)

\* abs(x - 1.0)
float_abs_diff_one(x) ==
    IF x.d > 100 \/ (x.d = 100 /\ x.e >= 0) THEN fl(x.d - 100, x.e)
    ELSE fl(100 - x.d, 0 - x.e)

\* x > y
float_gt(x, y) == x.d > y.d \/ (x.d = y.d /\ x.e > y.e)

\* line 363: sum(c.get("weight", 0) for c in request.criteria)
total_weight(criteria) ==
    LET RECURSIVE S(_)
        S(i) == IF i = 0 THEN float(0)
                ELSE float_add(S(i - 1),
                               IF criteria[i] = NoWeight THEN float(0) ELSE float(criteria[i]))
    IN  S(Len(criteria))

\* line 364: abs(total_weight - 1.0) > 0.01
weights_rejected(criteria) ==
    float_gt(float_abs_diff_one(total_weight(criteria)), float(1))

\* POST /decision-matrix, lines 358-380: up to the await of the upstream call
create_decision_matrix(document_ids, criteria, workspace_id, ok) ==
    LET req == [document_ids |-> document_ids, criteria |-> criteria, workspace_id |-> workspace_id]
        rid == nextId.request
    IN  /\ CanAccept
        /\ Received
        /\ UNCHANGED <<workspaces, documents, comparisons, matrices>>
        /\ UNCHANGED <<analyses, charts, qa_history, schema>>
        /\ IF Len(document_ids) < 2 THEN
                /\ UNCHANGED <<pending, upstream>>
                /\ event' = Event(rid, "decision_matrix", req, 400, SqlNull, 0, NoDetail)
           ELSE IF weights_rejected(criteria) THEN
                /\ UNCHANGED <<pending, upstream>>
                /\ event' = Event(rid, "decision_matrix", req, 400, SqlNull, 0,
                                  [kind |-> "weights", total |-> total_weight(criteria)])
           ELSE IF ~ok THEN
                /\ UNCHANGED <<pending, upstream>>
                /\ event' = Event(rid, "decision_matrix", req, 500, SqlNull, 1, NoDetail)
           ELSE IF missing(document_ids) # {} THEN
                /\ UNCHANGED <<pending, upstream>>
                /\ event' = Event(rid, "decision_matrix", req, 404, SqlNull, lookups_made(document_ids), NoDetail)
           ELSE /\ pending' = pending \cup {[rid |-> rid, op |-> "decision_matrix", req |-> req,
                        doc_id |-> NoId,
                        options |-> [i \in 1..Len(document_ids) |->
                                       [id |-> document_ids[i],
                                        name |-> documents[document_ids[i]].filename]]]}
                /\ upstream' = upstream + 1
                /\ event' = Event(rid, "decision_matrix", req, 0, SqlNull, lookups_made(document_ids), NoDetail)

\* POST /decision-matrix, lines 380-393: from the upstream result to the response
decision_matrix_resume(p, outcome, ok) ==
    /\ p \in pending /\ p.op = "decision_matrix"
    /\ pending' = pending \ {p}
    /\ UNCHANGED <<workspaces, documents, comparisons, nextId, upstream>>
    /\ UNCHANGED <<analyses, charts, qa_history, schema>>
    /\ IF outcome.ok /\ ok /\ workspace_column /\ workspace_fk(p.req.workspace_id)
       THEN /\ matrices' = Append(matrices,
                    [workspace_id |-> p.req.workspace_id, name |-> "m",
                     criteria |-> json_dumps(PyCriteria(p.req.criteria)),
                     options |-> json_dumps(PyOptions(p.options)),
                     result_json |-> json_dumps(outcome.value)])
            /\ event' = Event(p.rid, "decision_matrix_resume", Resumed(p, outcome, ok), 200, SqlNull, 0, NoDetail)
       ELSE /\ UNCHANGED matrices
            /\ event' = Event(p.rid, "decision_matrix_resume", Resumed(p, outcome, ok), 500, SqlNull, 0,
                              failure_detail(outcome))

\* ---- analyses, charts, questions and suggestions ----
\* POST /analyze, lines 256-263: up to the await of the upstream call
analyze_document_handler(document_id, analysis_type, ok) ==
    LET req == [document_id |-> document_id, analysis_type |-> analysis_type]
        rid == nextId.request
    IN  /\ CanAccept
        /\ Received
        /\ UNCHANGED <<workspaces, documents, comparisons, matrices, analyses, charts, qa_history, schema>>
        /\ IF ~ok THEN
                \* get_document raised: the exception leaves the handler
                /\ UNCHANGED <<pending, upstream>>
                /\ event' = Event(rid, "analyze", req, 500, SqlNull, 1, NoDetail)
           ELSE IF document_id \notin DOMAIN documents THEN
                /\ UNCHANGED <<pending, upstream>>
                /\ event' = Event(rid, "analyze", req, 404, SqlNull, 1, NoDetail)
           ELSE /\ pending' = pending \cup {[rid |-> rid, op |-> "analyze", req |-> req,
                                             doc_id |-> document_id, options |-> <<>>]}
                /\ upstream' = upstream + 1
                /\ event' = Event(rid, "analyze", req, 0, SqlNull, 1, NoDetail)

\* mutation of analyze_resume: the row is written whatever the upstream call
\* gave
analyze_resume_eager(p, outcome, ok) ==
    /\ p \in pending /\ p.op = "analyze"
    /\ pending' = pending \ {p}
    /\ UNCHANGED <<workspaces, documents, comparisons, matrices, charts, qa_history, schema, upstream>>
    /\ IF ok /\ document_fk(p.doc_id)
       THEN /\ analyses' = analyses @@ (nextId.analyses :>
                    [document_id |-> p.doc_id, analysis_type |-> p.req.analysis_type,
                     result_json |-> json_dumps(outcome.value)])
            /\ nextId' = [nextId EXCEPT !.analyses = @ + 1]
            /\ event' = Event(p.rid, "analyze_resume", Resumed(p, outcome, ok),
                              IF outcome.ok THEN 200 ELSE 500, SqlNull, 0,
                              IF outcome.ok THEN NoDetail ELSE failure_detail(outcome))
       ELSE /\ UNCHANGED <<analyses, nextId>>
            /\ event' = Event(p.rid, "analyze_resume", Resumed(p, outcome, ok), 500, SqlNull, 0,
                              failure_detail(outcome))

\* POST /analyze, lines 263-283: from the upstream result to the response;
\* database.save_analysis
analyze_resume(p, outcome, ok) ==
    /\ p \in pending /\ p.op = "analyze"
    /\ pending' = pending \ {p}
    /\ UNCHANGED <<workspaces, documents, comparisons, matrices, charts, qa_history, schema, upstream>>
    /\ IF outcome.ok /\ ok /\ document_fk(p.doc_id)
       THEN /\ analyses' = analyses @@ (nextId.analyses :>
                    [document_id |-> p.doc_id, analysis_type |-> p.req.analysis_type,
                     result_json |-> json_dumps(outcome.value)])
            /\ nextId' = [nextId EXCEPT !.analyses = @ + 1]
            /\ event' = Event(p.rid, "analyze_resume", Resumed(p, outcome, ok), 200, SqlNull, 0, NoDetail)
       ELSE /\ UNCHANGED <<analyses, nextId>>
            /\ event' = Event(p.rid, "analyze_resume", Resumed(p, outcome, ok), 500, SqlNull, 0,
                              failure_detail(outcome))

\* POST /charts, lines 449-455: up to the await of the upstream call
generate_chart(document_id, ok) ==
    LET req == [document_id |-> document_id]
        rid == nextId.request
    IN  /\ CanAccept
        /\ Received
        /\ UNCHANGED <<workspaces, documents, comparisons, matrices, analyses, charts, qa_history, schema>>
        /\ IF ~ok THEN
                /\ UNCHANGED <<pending, upstream>>
                /\ event' = Event(rid, "chart", req, 500, SqlNull, 1, NoDetail)
           ELSE IF document_id \notin DOMAIN documents THEN
                /\ UNCHANGED <<pending, upstream>>
                /\ event' = Event(rid, "chart", req, 404, SqlNull, 1, NoDetail)
           ELSE /\ pending' = pending \cup {[rid |-> rid, op |-> "chart", req |-> req,
                                             doc_id |-> document_id, options |-> <<>>]}
                /\ upstream' = upstream + 1
                /\ event' = Event(rid, "chart", req, 0, SqlNull, 1, NoDetail)

\* POST /charts, lines 455-472: from the upstream result to the response;
\* database.save_chart
chart_resume(p, outcome, ok) ==
    /\ p \in pending /\ p.op = "chart"
    /\ pending' = pending \ {p}
    /\ UNCHANGED <<workspaces, documents, comparisons, matrices, analyses, qa_history, schema, upstream>>
    /\ IF outcome.ok /\ ok /\ document_fk(p.doc_id)
       THEN /\ charts' = charts @@ (nextId.charts :>
                    [document_id |-> p.doc_id, chart_type |-> "bar", title |-> "Chart",
                     chart_data |-> json_dumps(outcome.value)])
            /\ nextId' = [nextId EXCEPT !.charts = @ + 1]
            /\ event' = Event(p.rid, "chart_resume", Resumed(p, outcome, ok), 200, SqlNull, 0, NoDetail)
       ELSE /\ UNCHANGED <<charts, nextId>>
            /\ event' = Event(p.rid, "chart_resume", Resumed(p, outcome, ok), 500, SqlNull, 0,
                              failure_detail(outcome))

\* POST /qa, lines 408-418: up to the await of the upstream call
ask_question(document_ids, workspace_id, ok) ==
    LET req == [document_ids |-> document_ids, workspace_id |-> workspace_id]
        rid == nextId.request
    IN  /\ CanAccept
        /\ Received
        /\ UNCHANGED <<workspaces, documents, comparisons, matrices, analyses, charts, qa_history, schema>>
        /\ IF document_ids = <<>> THEN
                /\ UNCHANGED <<pending, upstream>>
                /\ event' = Event(rid, "qa", req, 400, SqlNull, 0, NoDetail)
           ELSE IF ~ok THEN
                /\ UNCHANGED <<pending, upstream>>
                /\ event' = Event(rid, "qa", req, 500, SqlNull, 1, NoDetail)
           ELSE IF document_ids[1] \notin DOMAIN documents THEN
                /\ UNCHANGED <<pending, upstream>>
                /\ event' = Event(rid, "qa", req, 404, SqlNull, 1, NoDetail)
           ELSE /\ pending' = pending \cup {[rid |-> rid, op |-> "qa", req |-> req,
                                             doc_id |-> document_ids[1], options |-> <<>>]}
                /\ upstream' = upstream + 1
                /\ event' = Event(rid, "qa", req, 0, SqlNull, 1, NoDetail)

\* POST /qa, lines 418-435: from the upstream result to the response;
\* database.save_qa
qa_resume(p, outcome, ok) ==
    /\ p \in pending /\ p.op = "qa"
    /\ pending' = pending \ {p}
    /\ UNCHANGED <<workspaces, documents, comparisons, matrices, analyses, charts, schema, nextId, upstream>>
    /\ IF outcome.ok /\ ok /\ workspace_column /\ workspace_fk(p.req.workspace_id)
       THEN /\ qa_history' = Append(qa_history,
                    [workspace_id |-> p.req.workspace_id,
                     document_ids |-> (IF p.req.document_ids # <<>>
                                       THEN json_dumps(PyIds(p.req.document_ids)) ELSE SqlNull),
                     question |-> "q", answer_json |-> json_dumps(outcome.value)])
            /\ event' = Event(p.rid, "qa_resume", Resumed(p, outcome, ok), 200, SqlNull, 0, NoDetail)
       ELSE /\ UNCHANGED qa_history
            /\ event' = Event(p.rid, "qa_resume", Resumed(p, outcome, ok), 500, SqlNull, 0,
                              failure_detail(outcome))

\* GET /suggest/{doc_id}, lines 543-550: up to the await of the upstream call
get_suggestions(doc_id, ok) ==
    LET req == [doc_id |-> doc_id,
                stored |-> IF doc_id \in DOMAIN documents THEN documents[doc_id].suggestions ELSE SqlNull]
        rid == nextId.request
    IN  /\ CanAccept
        /\ Received
        /\ UNCHANGED <<workspaces, documents, comparisons, matrices, analyses, charts, qa_history, schema>>
        /\ IF ~ok THEN
                /\ UNCHANGED <<pending, upstream>>
                /\ event' = Event(rid, "suggest", req, 500, SqlNull, 1, NoDetail)
           ELSE IF doc_id \notin DOMAIN documents THEN
                /\ UNCHANGED <<pending, upstream>>
                /\ event' = Event(rid, "suggest", req, 404, SqlNull, 1, NoDetail)
           ELSE /\ pending' = pending \cup {[rid |-> rid, op |-> "suggest", req |-> req,
                                             doc_id |-> doc_id, options |-> <<>>]}
                /\ upstream' = upstream + 1
                /\ event' = Event(rid, "suggest", req, 0, SqlNull, 1, NoDetail)

\* GET /suggest/{doc_id}, lines 550-559: from the upstream result to the response
suggest_resume(p, outcome) ==
    /\ p \in pending /\ p.op = "suggest"
    /\ pending' = pending \ {p}
    /\ UNCHANGED <<workspaces, documents, comparisons, matrices, analyses, charts, qa_history, schema,
                   nextId, upstream>>
    /\ IF outcome.ok
       THEN event' = Event(p.rid, "suggest_resume", Resumed(p, outcome, TRUE), 200,
                           json_dumps(outcome.value), 0, NoDetail)
       ELSE event' = Event(p.rid, "suggest_resume", Resumed(p, outcome, TRUE), 500, SqlNull, 0,
                           failure_detail(outcome))

\* ---- the read endpoints: what each returns for the JSON columns ----
\* json.loads(text): the value, or the exception that leaves the endpoint
loaded(text) ==
    IF json_loads(text).st = "ok" THEN json_loads(text).value
    ELSE [py |-> json_loads(text).st, json |-> <<>>]

\* a column that is parsed when it holds a str (the NULL of SQL is None)
loaded_if_str(column) == IF column = SqlNull THEN PyNone ELSE loaded(column)

\* GET /documents, lines 213-226: suggestions parsed if present, None if the
\* text does not parse
list_documents ==
    [d \in DOMAIN documents |->
        [suggestions |->
            IF documents[d].suggestions = SqlNull THEN PyNone
            ELSE IF json_loads(documents[d].suggestions).st = "ok"
                 THEN json_loads(documents[d].suggestions).value
                 ELSE PyNone]]

\* GET /analysis/{doc_id}, lines 296-302
get_analysis_history(doc_id) ==
    [r \in {x \in DOMAIN analyses : analyses[x].document_id = doc_id} |->
        [result_json |-> loaded(analyses[r].result_json)]]

\* GET /comparisons, lines 346-353
list_comparisons ==
    [c \in DOMAIN comparisons |->
        [document_ids |-> loaded_if_str(comparisons[c].document_ids),
         result_json |-> loaded(comparisons[c].result_json)]]

\* GET /decision-matrices, lines 394-403
list_decision_matrices ==
    [m \in DOMAIN matrices |->
        [criteria |-> loaded_if_str(matrices[m].criteria),
         options |-> loaded_if_str(matrices[m].options),
         result_json |-> IF matrices[m].result_json # SqlNull
                         THEN loaded(matrices[m].result_json) ELSE PyNone]]

\* GET /charts/{doc_id}, lines 474-480
get_document_charts(doc_id) ==
    [r \in {x \in DOMAIN charts : charts[x].document_id = doc_id} |->
        [chart_data |-> loaded_if_str(charts[r].chart_data)]]

\* mutation of get_qa_history: the document ids are not parsed
get_qa_history_unparsed ==
    [h \in DOMAIN qa_history |->
        [document_ids |-> PyList(<<>>),
         answer_json |-> loaded(qa_history[h].answer_json)]]

\* GET /qa-history, lines 437-444: document_ids parsed if present, [] if not
get_qa_history ==
    [h \in DOMAIN qa_history |->
        [document_ids |-> IF qa_history[h].document_ids # SqlNull
                          THEN loaded(qa_history[h].document_ids) ELSE PyList(<<>>),
         answer_json |-> loaded(qa_history[h].answer_json)]]

\* ---- workspaces and documents: the updates ----
\* `if name`: neither None nor ""
truthy(name) == name # NoneArg /\ name # ""

\* the body of a response {"message": ...}
Message(text) == [kind |-> "message", message |-> text]

\* mutation of update_workspace_row: a description is written without a name
update_workspace_row_described(row, name, description) ==
    IF truthy(name) /\ description # SqlNull THEN [name |-> name, description |-> description]
    ELSE IF truthy(name) THEN [row EXCEPT !.name = name]
    ELSE IF description # SqlNull THEN [row EXCEPT !.description = description]
    ELSE row

\* database.update_workspace, lines 183-186: the row after the UPDATE that is
\* executed, if one is.  A description is <<text>>, and <<>> when it is None
update_workspace_row(row, name, description) ==
    IF truthy(name) /\ description # SqlNull THEN [name |-> name, description |-> description]
    ELSE IF truthy(name) THEN [row EXCEPT !.name = name]
    ELSE row

\* PUT /workspaces/{id} -> database.update_workspace
update_workspace(workspace_id, name, description, ok) ==
    /\ CanAccept
    /\ Received
    /\ IF ok
       THEN workspaces' = [w \in DOMAIN workspaces |->
                              IF w = workspace_id
                              THEN update_workspace_row(workspaces[w], name, description)
                              ELSE workspaces[w]]
       ELSE UNCHANGED workspaces
    /\ UNCHANGED <<documents, comparisons, matrices, analyses, charts, qa_history, schema, pending, upstream>>
    /\ event' = Event(nextId.request, "update_workspace",
                      [workspace_id |-> workspace_id, name |-> name, description |-> description, ok |-> ok],
                      IF ok THEN 200 ELSE 500, SqlNull, 0,
                      IF ok THEN Message("Workspace updated") ELSE NoDetail)

\* POST /workspaces/{id}/assign-all -> database.assign_all_documents_to_workspace:
\* UPDATE documents SET workspace_id = %s, on every row
assign_all_docs_to_workspace(workspace_id, ok) ==
    LET done == ok /\ (documents = <<>> \/ workspace_fk(workspace_id)) IN
    /\ CanAccept
    /\ Received
    /\ IF done
       THEN documents' = [d \in DOMAIN documents |-> [documents[d] EXCEPT !.workspace_id = workspace_id]]
       ELSE UNCHANGED documents
    /\ UNCHANGED <<workspaces, comparisons, matrices, analyses, charts, qa_history, schema, pending, upstream>>
    /\ event' = Event(nextId.request, "assign_all", [workspace_id |-> workspace_id, ok |-> ok],
                      IF done THEN 200 ELSE 500, SqlNull, 0, NoDetail)

\* PUT /documents/{id}/workspace -> database.update_document_workspace:
\* UPDATE documents SET workspace_id = %s WHERE id = %s
move_document_to_workspace(doc_id, workspace_id, ok) ==
    LET done == ok /\ (doc_id \notin DOMAIN documents \/ workspace_fk(workspace_id)) IN
    /\ CanAccept
    /\ Received
    /\ IF done
       THEN documents' = [d \in DOMAIN documents |->
                             IF d = doc_id THEN [documents[d] EXCEPT !.workspace_id = workspace_id]
                             ELSE documents[d]]
       ELSE UNCHANGED documents
    /\ UNCHANGED <<workspaces, comparisons, matrices, analyses, charts, qa_history, schema, pending, upstream>>
    /\ event' = Event(nextId.request, "move_document",
                      [doc_id |-> doc_id, workspace_id |-> workspace_id, ok |-> ok],
                      IF done THEN 200 ELSE 500, SqlNull, 0,
                      IF done THEN Message("Document moved to workspace") ELSE NoDetail)

\* ---- POST /analyze-upload and POST /upload-multiple ----
\* Both call the handler upload_document(file, workspace_id) as a function:
\* its auto_analyze parameter is then the Form(default=True) object, which is
\* truthy, so the suggestions are always asked for.

\* file.filename or "unknown"
filename_of(file) ==
    IF file.filename = <<>> THEN <<"u", "n", "k", "n", "o", "w", "n">> ELSE file.filename

\* upload_document lines 166 and 172: the HTTPException(400) raised, if any
rejection(file) ==
    IF extension(filename_of(file)) \notin allowed_types THEN "File type not supported"
    ELSE IF file.size > MaxUploadBytes THEN "File too large"
    ELSE "none"

\* the row of save_document, line 175
document_row(file, workspace_id) ==
    [filename |-> filename_of(file), file_type |-> extension(filename_of(file)),
     file_size |-> file.size, file_data |-> [len |-> file.size], suggestions |-> SqlNull,
     workspace_id |-> workspace_id]

\* upload_document lines 183-188 after the await: the suggestions are stored
\* when the upstream call gave a value and the UPDATE went through; every
\* exception is caught
suggestions_stored(doc_id, outcome, ok) ==
    IF outcome.ok /\ ok THEN update_document_suggestions(doc_id, json_dumps(outcome.value))
    ELSE documents

\* POST /analyze-upload, line 291 up to the await in upload_document
upload_and_analyze(file, analysis_type, workspace_id, ok) ==
    LET req == [file |-> file, analysis_type |-> analysis_type, workspace_id |-> workspace_id,
                insert_ok |-> save_document_ok(workspace_id, ok)]
        rid == nextId.request
    IN  /\ CanAccept
        /\ UNCHANGED <<workspaces, comparisons, matrices, analyses, charts, qa_history, schema>>
        /\ IF rejection(file) # "none" THEN
                /\ Received
                /\ UNCHANGED <<documents, pending, upstream>>
                /\ event' = Event(rid, "analyze_upload", req, 400, SqlNull, 0, Message(rejection(file)))
           ELSE IF ~save_document_ok(workspace_id, ok) THEN
                /\ Received
                /\ UNCHANGED <<documents, pending, upstream>>
                /\ event' = Event(rid, "analyze_upload", req, 500, SqlNull, 0, NoDetail)
           ELSE /\ documents' = documents @@ (nextId.documents :> document_row(file, workspace_id))
                /\ nextId' = [nextId EXCEPT !.request = @ + 1, !.documents = @ + 1]
                /\ pending' = pending \cup {[rid |-> rid, op |-> "analyze_upload", req |-> req,
                                             doc_id |-> nextId.documents,
                                             options |-> <<"suggestions">>]}
                /\ upstream' = upstream + 1
                /\ event' = Event(rid, "analyze_upload", req, 0, SqlNull, 0, NoDetail)

\* POST /analyze-upload, from the return of get_analysis_suggestions to the
\* await in analyze_document(request) (lines 292-293, 256-263): the
\* suggestions are stored, the request is built, the document is looked up
upload_and_analyze_suggested(p, outcome, ok, lookup_ok) ==
    /\ p \in pending /\ p.op = "analyze_upload" /\ p.options = <<"suggestions">>
    /\ UNCHANGED <<workspaces, comparisons, matrices, analyses, charts, qa_history, schema, nextId>>
    /\ documents' = suggestions_stored(p.doc_id, outcome, ok)
    /\ IF ~lookup_ok THEN
            /\ pending' = pending \ {p}
            /\ UNCHANGED upstream
            /\ event' = Event(p.rid, "analyze_upload_suggested", Resumed(p, outcome, ok), 500,
                              SqlNull, 1, NoDetail)
       ELSE IF p.doc_id \notin DOMAIN documents THEN
            /\ pending' = pending \ {p}
            /\ UNCHANGED upstream
            /\ event' = Event(p.rid, "analyze_upload_suggested", Resumed(p, outcome, ok), 404,
                              SqlNull, 1, Message("Document not found"))
       ELSE /\ pending' = (pending \ {p}) \cup {[p EXCEPT !.options = <<"analysis">>]}
            /\ upstream' = upstream + 1
            /\ event' = Event(p.rid, "analyze_upload_suggested", Resumed(p, outcome, ok), 0,
                              SqlNull, 1, NoDetail)

\* mutation of upload_and_analyze_resume: a failed analysis takes the
\* uploaded document back
upload_and_analyze_resume_undoing(p, outcome, ok) ==
    /\ p \in pending /\ p.op = "analyze_upload" /\ p.options = <<"analysis">>
    /\ pending' = pending \ {p}
    /\ UNCHANGED <<workspaces, comparisons, matrices, charts, qa_history, schema, upstream>>
    /\ IF outcome.ok /\ ok /\ document_fk(p.doc_id)
       THEN /\ analyses' = analyses @@ (nextId.analyses :>
                    [document_id |-> p.doc_id, analysis_type |-> p.req.analysis_type,
                     result_json |-> json_dumps(outcome.value)])
            /\ nextId' = [nextId EXCEPT !.analyses = @ + 1]
            /\ UNCHANGED documents
            /\ event' = Event(p.rid, "analyze_upload_resume", Resumed(p, outcome, ok), 200, SqlNull, 0, NoDetail)
       ELSE /\ UNCHANGED <<analyses, nextId>>
            /\ documents' = [d \in (DOMAIN documents) \ {p.doc_id} |-> documents[d]]
            /\ event' = Event(p.rid, "analyze_upload_resume", Resumed(p, outcome, ok), 500, SqlNull, 0,
                              failure_detail(outcome))

\* POST /analyze-upload, from the upstream result of the analysis to the
\* response (lines 263-283, 294)
upload_and_analyze_resume(p, outcome, ok) ==
    /\ p \in pending /\ p.op = "analyze_upload" /\ p.options = <<"analysis">>
    /\ pending' = pending \ {p}
    /\ UNCHANGED <<workspaces, documents, comparisons, matrices, charts, qa_history, schema, upstream>>
    /\ IF outcome.ok /\ ok /\ document_fk(p.doc_id)
       THEN /\ analyses' = analyses @@ (nextId.analyses :>
                    [document_id |-> p.doc_id, analysis_type |-> p.req.analysis_type,
                     result_json |-> json_dumps(outcome.value)])
            /\ nextId' = [nextId EXCEPT !.analyses = @ + 1]
            /\ event' = Event(p.rid, "analyze_upload_resume", Resumed(p, outcome, ok), 200, SqlNull, 0, NoDetail)
       ELSE /\ UNCHANGED <<analyses, nextId>>
            /\ event' = Event(p.rid, "analyze_upload_resume", Resumed(p, outcome, ok), 500, SqlNull, 0,
                              failure_detail(outcome))

\* the entry of a file that upload_document rejected, line 210:
\* {"filename": file.filename, "error": e.detail}
ErrorEntry(file) == [kind |-> "error", filename |-> file.filename, id |-> NoId, error |-> rejection(file)]

\* the entry of a file that upload_document stored: its response
StoredEntry(file, doc_id) == [kind |-> "stored", filename |-> filename_of(file), id |-> doc_id, error |-> "none"]

\* the loop of lines 205-210 from file i on, as far as it goes without
\* awaiting: the files rejected, up to the first one that is not
RECURSIVE rejected_entries(_, _)
rejected_entries(files, i) ==
    IF i > Len(files) \/ rejection(files[i]) = "none" THEN <<>>
    ELSE <<ErrorEntry(files[i])>> \o rejected_entries(files, i + 1)

\* mutation of batch_step: the first rejected file ends the loop
batch_step_stopping(p_rid, op, req, results, i, reqinfo, ok) ==
    LET files == req.files
        entries == results \o (IF i <= Len(files) /\ rejection(files[i]) # "none"
                               THEN <<ErrorEntry(files[i])>> ELSE <<>>)
        j == IF i <= Len(files) /\ rejection(files[i]) # "none" THEN Len(files) + 1 ELSE i
    IN  IF j > Len(files) THEN
             /\ UNCHANGED <<upstream>>
             /\ pending' = {q \in pending : q.rid # p_rid}
             /\ nextId' = [nextId EXCEPT !.request = IF op = "upload_multiple" THEN @ + 1 ELSE @]
             /\ event' = Event(p_rid, op, reqinfo, 200, SqlNull, 0, [kind |-> "uploaded", results |-> entries])
        ELSE IF ~save_document_ok(req.workspace_id, ok) THEN
             /\ UNCHANGED <<upstream>>
             /\ pending' = {q \in pending : q.rid # p_rid}
             /\ nextId' = [nextId EXCEPT !.request = IF op = "upload_multiple" THEN @ + 1 ELSE @]
             /\ event' = Event(p_rid, op, reqinfo, 500, SqlNull, 0, NoDetail)
        ELSE /\ upstream' = upstream + 1
             /\ pending' = {q \in pending : q.rid # p_rid}
                              \cup {[rid |-> p_rid, op |-> "upload_multiple", req |-> req,
                                     doc_id |-> nextId.documents,
                                     options |-> <<[index |-> j, results |-> entries]>>]}
             /\ nextId' = [nextId EXCEPT !.request = IF op = "upload_multiple" THEN @ + 1 ELSE @,
                                         !.documents = @ + 1]
             /\ event' = Event(p_rid, op, reqinfo, 0, SqlNull, 0, NoDetail)

\* the loop of lines 205-210 from file i on, up to its next await, to the
\* exception that leaves it, or to the response of line 211.  A rejected
\* file gives an entry and the loop goes on; an exception of save_document
\* is no HTTPException and leaves the handler
batch_step(p_rid, op, req, results, i, reqinfo, ok) ==
    LET files == req.files
        entries == results \o rejected_entries(files, i)
        j == i + Len(rejected_entries(files, i))
    IN  IF j > Len(files) THEN
             /\ UNCHANGED <<upstream>>
             /\ pending' = {q \in pending : q.rid # p_rid}
             /\ nextId' = [nextId EXCEPT !.request = IF op = "upload_multiple" THEN @ + 1 ELSE @]
             /\ event' = Event(p_rid, op, reqinfo, 200, SqlNull, 0, [kind |-> "uploaded", results |-> entries])
        ELSE IF ~save_document_ok(req.workspace_id, ok) THEN
             /\ UNCHANGED <<upstream>>
             /\ pending' = {q \in pending : q.rid # p_rid}
             /\ nextId' = [nextId EXCEPT !.request = IF op = "upload_multiple" THEN @ + 1 ELSE @]
             /\ event' = Event(p_rid, op, reqinfo, 500, SqlNull, 0, NoDetail)
        ELSE /\ upstream' = upstream + 1
             /\ pending' = {q \in pending : q.rid # p_rid}
                              \cup {[rid |-> p_rid, op |-> "upload_multiple", req |-> req,
                                     doc_id |-> nextId.documents,
                                     options |-> <<[index |-> j, results |-> entries]>>]}
             /\ nextId' = [nextId EXCEPT !.request = IF op = "upload_multiple" THEN @ + 1 ELSE @,
                                         !.documents = @ + 1]
             /\ event' = Event(p_rid, op, reqinfo, 0, SqlNull, 0, NoDetail)

\* the documents after batch_step from file i on: the first file that is not
\* rejected is saved, if the INSERT goes through
batch_saved(docs, req, i, ok) ==
    LET j == i + Len(rejected_entries(req.files, i)) IN
    IF j <= Len(req.files) /\ save_document_ok(req.workspace_id, ok)
    THEN docs @@ (nextId.documents :> document_row(req.files[j], req.workspace_id))
    ELSE docs

\* POST /upload-multiple, lines 200-211: up to the first await
upload_multiple_documents(files, workspace_id, ok) ==
    LET req == [files |-> files, workspace_id |-> workspace_id] IN
    /\ CanAccept
    /\ UNCHANGED <<workspaces, comparisons, matrices, analyses, charts, qa_history, schema>>
    /\ documents' = batch_saved(documents, req, 1, ok)
    /\ batch_step(nextId.request, "upload_multiple", req, <<>>, 1, req, ok)

\* POST /upload-multiple, from the return of get_analysis_suggestions for one
\* file to the next await or to the response
upload_multiple_resume(p, outcome, ok, insert_ok) ==
    /\ p \in pending /\ p.op = "upload_multiple"
    /\ UNCHANGED <<workspaces, comparisons, matrices, analyses, charts, qa_history, schema>>
    /\ documents' = batch_saved(suggestions_stored(p.doc_id, outcome, ok), p.req,
                                p.options[1].index + 1, insert_ok)
    /\ batch_step(p.rid, "upload_multiple_resume", p.req,
                  p.options[1].results \o <<StoredEntry(p.req.files[p.options[1].index], p.doc_id)>>,
                  p.options[1].index + 1,
                  [request |-> p.req, doc_id |-> p.doc_id, outcome |-> outcome.ok, ok |-> ok,
                   insert_ok |-> insert_ok],
                  insert_ok)

WorkspaceRefs == {NoId, 1}

\* the steps of call_openrouter
CallerNext ==
    \/ \E retries \in 0..MaxRetries :
           Call(retries) /\ UNCHANGED <<buildVars, dispatchVars, serviceVars, promptVars, gatewayVars>>
    \/ \E r \in Replies :
           Attempt(r) /\ UNCHANGED <<buildVars, dispatchVars, serviceVars, promptVars, gatewayVars>>

\* the step of build_file_content
BuildNext ==
    \/ Build /\ UNCHANGED <<callerVars, dispatchVars, serviceVars, promptVars, gatewayVars>>
    \/ BuildAgain /\ UNCHANGED <<callerVars, dispatchVars, serviceVars, promptVars, gatewayVars>>

\* the step of analyze_document
DispatchNext ==
    Analyze /\ UNCHANGED <<callerVars, buildVars, serviceVars, promptVars, gatewayVars>>

\* the step of POST /analyze down to call_openrouter
PromptNext ==
    Send /\ UNCHANGED <<callerVars, buildVars, dispatchVars, gatewayVars, serviceVars>>

\* the operations of the gateway, each with a statement that goes through or
\* that fails
GatewayNext ==
    \E op \in GatewayOperations, statement_ok \in BOOLEAN :
        gateway_operation(op, statement_ok)
        /\ UNCHANGED <<callerVars, buildVars, dispatchVars, promptVars, serviceVars>>

\* the steps of the handlers of workspaces, uploads, comparisons and decision
\* matrices, on every input
Next ==
    \/ \E ok \in BOOLEAN :
           Wide /\ create_workspace(ok) /\ UNCHANGED <<callerVars, buildVars, dispatchVars, promptVars, gatewayVars>>
    \/ \E w \in RefIds, ok \in BOOLEAN :
           Wide /\ delete_workspace(w, ok) /\ UNCHANGED <<callerVars, buildVars, dispatchVars, promptVars, gatewayVars>>
    \/ \E file \in Uploads, w \in WorkspaceRefs, a \in BOOLEAN, ok \in BOOLEAN :
           Wide /\ upload_document(file, w, a, ok) /\ UNCHANGED <<callerVars, buildVars, dispatchVars, promptVars, gatewayVars>>
    \/ \E p \in pending, o \in Outcomes, ok \in BOOLEAN :
           upload_resume(p, o, ok) /\ UNCHANGED <<callerVars, buildVars, dispatchVars, promptVars, gatewayVars>>
    \/ \E d \in RefIds, ok \in BOOLEAN :
           Wide /\ delete_document(d, ok) /\ UNCHANGED <<callerVars, buildVars, dispatchVars, promptVars, gatewayVars>>
    \/ \E ids \in IdLists, w \in WorkspaceRefs, ok \in BOOLEAN :
           Wide /\ compare_documents(ids, w, ok) /\ UNCHANGED <<callerVars, buildVars, dispatchVars, promptVars, gatewayVars>>
    \/ \E p \in pending, o \in Outcomes, ok \in BOOLEAN :
           compare_resume(p, o, ok) /\ UNCHANGED <<callerVars, buildVars, dispatchVars, promptVars, gatewayVars>>
    \/ \E ids \in IdLists, c \in CriteriaLists, w \in WorkspaceRefs, ok \in BOOLEAN :
           Wide /\ create_decision_matrix(ids, c, w, ok) /\ UNCHANGED <<callerVars, buildVars, dispatchVars, promptVars, gatewayVars>>
    \/ \E p \in pending, o \in Outcomes, ok \in BOOLEAN :
           decision_matrix_resume(p, o, ok) /\ UNCHANGED <<callerVars, buildVars, dispatchVars, promptVars, gatewayVars>>

\* the one file, id lists and criteria of the longer runs
OneUpload == [filename |-> <<"a", ".", "t", "x", "t">>, size |-> 10]
OneIdList == {<<>>, <<1>>, <<1, 1>>}
OneCriteria == <<50, 50>>

\* the steps of every handler, over more requests and on fewer inputs
ResultsNext ==
    \/ create_workspace(TRUE) /\ UNCHANGED <<callerVars, buildVars, dispatchVars, promptVars, gatewayVars>>
    \/ delete_workspace(1, TRUE) /\ UNCHANGED <<callerVars, buildVars, dispatchVars, promptVars, gatewayVars>>
    \/ \E w \in WorkspaceRefs, a \in BOOLEAN :
           Free /\ upload_document(OneUpload, w, a, TRUE) /\ UNCHANGED <<callerVars, buildVars, dispatchVars, promptVars, gatewayVars>>
    \/ \E p \in pending, o \in Outcomes :
           upload_resume(p, o, TRUE) /\ UNCHANGED <<callerVars, buildVars, dispatchVars, promptVars, gatewayVars>>
    \/ delete_document(1, TRUE) /\ UNCHANGED <<callerVars, buildVars, dispatchVars, promptVars, gatewayVars>>
    \/ \E ids \in OneIdList, w \in WorkspaceRefs :
           Free /\ compare_documents(ids, w, TRUE) /\ UNCHANGED <<callerVars, buildVars, dispatchVars, promptVars, gatewayVars>>
    \/ \E p \in pending, o \in Outcomes, ok \in BOOLEAN :
           compare_resume(p, o, ok) /\ UNCHANGED <<callerVars, buildVars, dispatchVars, promptVars, gatewayVars>>
    \/ \E ids \in OneIdList, w \in WorkspaceRefs :
           Free /\ create_decision_matrix(ids, OneCriteria, w, TRUE) /\ UNCHANGED <<callerVars, buildVars, dispatchVars, promptVars, gatewayVars>>
    \/ \E p \in pending, o \in Outcomes, ok \in BOOLEAN :
           decision_matrix_resume(p, o, ok) /\ UNCHANGED <<callerVars, buildVars, dispatchVars, promptVars, gatewayVars>>
    \/ \E d \in RefIds :
           Free /\ analyze_document_handler(d, "summarize", TRUE) /\ UNCHANGED <<callerVars, buildVars, dispatchVars, promptVars, gatewayVars>>
    \/ \E p \in pending, o \in Outcomes, ok \in BOOLEAN :
           analyze_resume(p, o, ok) /\ UNCHANGED <<callerVars, buildVars, dispatchVars, promptVars, gatewayVars>>
    \/ \E d \in RefIds :
           Free /\ generate_chart(d, TRUE) /\ UNCHANGED <<callerVars, buildVars, dispatchVars, promptVars, gatewayVars>>
    \/ \E p \in pending, o \in Outcomes, ok \in BOOLEAN :
           chart_resume(p, o, ok) /\ UNCHANGED <<callerVars, buildVars, dispatchVars, promptVars, gatewayVars>>
    \/ \E ids \in OneIdList, w \in WorkspaceRefs :
           Free /\ ask_question(ids, w, TRUE) /\ UNCHANGED <<callerVars, buildVars, dispatchVars, promptVars, gatewayVars>>
    \/ \E p \in pending, o \in Outcomes, ok \in BOOLEAN :
           qa_resume(p, o, ok) /\ UNCHANGED <<callerVars, buildVars, dispatchVars, promptVars, gatewayVars>>
    \/ \E d \in RefIds :
           Free /\ get_suggestions(d, TRUE) /\ UNCHANGED <<callerVars, buildVars, dispatchVars, promptVars, gatewayVars>>
    \/ \E p \in pending, o \in Outcomes :
           suggest_resume(p, o) /\ UNCHANGED <<callerVars, buildVars, dispatchVars, promptVars, gatewayVars>>

\* the files of a batch: accepted, refused for its extension, refused for its
\* size
BatchFiles ==
    {OneUpload, [filename |-> <<"a", ".", "e", "x", "e">>, size |-> 10],
     [filename |-> <<"a", ".", "t", "x", "t">>, size |-> MaxUploadBytes + 1]}

\* the batches: every list of at most two files, and two lists of three
Batches ==
    UNION {[1..k -> BatchFiles] : k \in 0..2}
    \cup {<<OneUpload, [filename |-> <<"a", ".", "e", "x", "e">>, size |-> 10], OneUpload>>,
          <<[filename |-> <<"a", ".", "e", "x", "e">>, size |-> 10], OneUpload,
            [filename |-> <<"a", ".", "t", "x", "t">>, size |-> MaxUploadBytes + 1]>>}

\* the names and the descriptions of PUT /workspaces/{id}: omitted, empty, given
NamesGiven == {NoneArg, "", "n"}
DescriptionsGiven == {SqlNull, <<"">>, <<"d">>}

\* the steps of the handlers that change workspaces and documents, and of the
\* two handlers that call upload_document
DocsNext ==
    \/ Wide /\ create_workspace(TRUE) /\ UNCHANGED <<callerVars, buildVars, dispatchVars, promptVars, gatewayVars>>
    \/ \E w \in RefIds, name \in NamesGiven, description \in DescriptionsGiven, ok \in BOOLEAN :
           Wide /\ update_workspace(w, name, description, ok)
           /\ UNCHANGED <<callerVars, buildVars, dispatchVars, promptVars, gatewayVars>>
    \/ Wide /\ delete_workspace(1, TRUE) /\ UNCHANGED <<callerVars, buildVars, dispatchVars, promptVars, gatewayVars>>
    \/ \E w \in RefIds :
           Wide /\ assign_all_docs_to_workspace(w, TRUE)
           /\ UNCHANGED <<callerVars, buildVars, dispatchVars, promptVars, gatewayVars>>
    \/ \E d \in RefIds, w \in RefIds :
           Wide /\ move_document_to_workspace(d, w, TRUE)
           /\ UNCHANGED <<callerVars, buildVars, dispatchVars, promptVars, gatewayVars>>
    \/ \E w \in WorkspaceRefs :
           Wide /\ Free /\ upload_document(OneUpload, w, TRUE, TRUE)
           /\ UNCHANGED <<callerVars, buildVars, dispatchVars, promptVars, gatewayVars>>
    \/ \E p \in pending, o \in Outcomes :
           upload_resume(p, o, TRUE) /\ UNCHANGED <<callerVars, buildVars, dispatchVars, promptVars, gatewayVars>>
    \/ \E d \in RefIds :
           Wide /\ delete_document(d, TRUE) /\ UNCHANGED <<callerVars, buildVars, dispatchVars, promptVars, gatewayVars>>
    \/ \E file \in BatchFiles, w \in WorkspaceRefs, ok \in BOOLEAN :
           Wide /\ Free /\ upload_and_analyze(file, "summarize", w, ok)
           /\ UNCHANGED <<callerVars, buildVars, dispatchVars, promptVars, gatewayVars>>
    \/ \E p \in pending, o \in Outcomes, ok \in BOOLEAN :
           upload_and_analyze_suggested(p, o, TRUE, ok)
           /\ UNCHANGED <<callerVars, buildVars, dispatchVars, promptVars, gatewayVars>>
    \/ \E p \in pending, o \in Outcomes, ok \in BOOLEAN :
           upload_and_analyze_resume(p, o, ok)
           /\ UNCHANGED <<callerVars, buildVars, dispatchVars, promptVars, gatewayVars>>
    \/ \E files \in Batches, w \in WorkspaceRefs, ok \in BOOLEAN :
           Wide /\ Free /\ upload_multiple_documents(files, w, ok)
           /\ UNCHANGED <<callerVars, buildVars, dispatchVars, promptVars, gatewayVars>>
    \/ \E p \in pending, o \in Outcomes, ok \in BOOLEAN :
           upload_multiple_resume(p, o, TRUE, ok)
           /\ UNCHANGED <<callerVars, buildVars, dispatchVars, promptVars, gatewayVars>>

(***************************************************************************)
(* The specifications.  Each explores one part of the program; the other   *)
(* parts stay as they are before anything is called.                       *)
(***************************************************************************)
\* call_openrouter is about to be called
CallerInit ==
    /\ cstate = "idle"
    /\ c_retries = 0
    /\ attempt = 0
    /\ last_error = None
    /\ posts = 0
    /\ ret = NoValue
    /\ exc = None
    /\ printed = "none"
    /\ lastReply = [class |-> "none", value |-> NoValue]
    /\ priorBad = TRUE
    /\ b_in = NoArgs
    /\ b_out = NotCalled
    /\ a_in = NoAnalysis
    /\ a_out = NotAnalyzed
    /\ b_again = NotCalled
    /\ q_in = NoRequest
    /\ q_out = NotSent
    /\ checked_out = 0
    /\ g_last = NoOperation
    /\ workspaces = <<>>
    /\ documents = <<>>
    /\ comparisons = <<>>
    /\ matrices = <<>>
    /\ analyses = <<>>
    /\ charts = <<>>
    /\ qa_history = <<>>
    /\ schema = "init_database"
    /\ nextId = [request |-> 1, workspaces |-> 1, documents |-> 1, analyses |-> 1, charts |-> 1]
    /\ pending = {}
    /\ upstream = 0
    /\ event = [rid |-> 0, op |-> "none", req |-> [none |-> TRUE], status |-> 0,
                suggestions |-> SqlNull, lookups |-> 0, detail |-> NoDetail,
                addedDocs |-> {}, removedDocs |-> {},
                changedDocs |-> {}, addedRows |-> 0, changedRows |-> 0, calls |-> 0]

SpecCaller ==
    /\ CallerInit
    /\ [][CallerNext]_vars

\* build_file_content is about to be called, on any arguments
BuildInit ==
    /\ cstate = "idle"
    /\ c_retries = 0
    /\ attempt = 0
    /\ last_error = None
    /\ posts = 0
    /\ ret = NoValue
    /\ exc = None
    /\ printed = "none"
    /\ lastReply = [class |-> "none", value |-> NoValue]
    /\ priorBad = TRUE
    /\ b_in \in [file_data : ByteStrings, filename : Filenames, file_type : FileTypes]
    /\ b_out = NotCalled
    /\ a_in = NoAnalysis
    /\ a_out = NotAnalyzed
    /\ b_again = NotCalled
    /\ q_in = NoRequest
    /\ q_out = NotSent
    /\ checked_out = 0
    /\ g_last = NoOperation
    /\ workspaces = <<>>
    /\ documents = <<>>
    /\ comparisons = <<>>
    /\ matrices = <<>>
    /\ analyses = <<>>
    /\ charts = <<>>
    /\ qa_history = <<>>
    /\ schema = "init_database"
    /\ nextId = [request |-> 1, workspaces |-> 1, documents |-> 1, analyses |-> 1, charts |-> 1]
    /\ pending = {}
    /\ upstream = 0
    /\ event = [rid |-> 0, op |-> "none", req |-> [none |-> TRUE], status |-> 0,
                suggestions |-> SqlNull, lookups |-> 0, detail |-> NoDetail,
                addedDocs |-> {}, removedDocs |-> {},
                changedDocs |-> {}, addedRows |-> 0, changedRows |-> 0, calls |-> 0]

SpecBuild ==
    /\ BuildInit
    /\ [][BuildNext]_vars

\* analyze_document is about to be called, on any tag and keywords
DispatchInit ==
    /\ cstate = "idle"
    /\ c_retries = 0
    /\ attempt = 0
    /\ last_error = None
    /\ posts = 0
    /\ ret = NoValue
    /\ exc = None
    /\ printed = "none"
    /\ lastReply = [class |-> "none", value |-> NoValue]
    /\ priorBad = TRUE
    /\ b_in = NoArgs
    /\ b_out = NotCalled
    /\ a_in \in [file : {[file_data |-> <<>>, filename |-> "report", file_type |-> "pdf"]},
                analysis_type : AnalysisTags, kwargs : KwargsGiven]
    /\ a_out = NotAnalyzed
    /\ b_again = NotCalled
    /\ q_in = NoRequest
    /\ q_out = NotSent
    /\ checked_out = 0
    /\ g_last = NoOperation
    /\ workspaces = <<>>
    /\ documents = <<>>
    /\ comparisons = <<>>
    /\ matrices = <<>>
    /\ analyses = <<>>
    /\ charts = <<>>
    /\ qa_history = <<>>
    /\ schema = "init_database"
    /\ nextId = [request |-> 1, workspaces |-> 1, documents |-> 1, analyses |-> 1, charts |-> 1]
    /\ pending = {}
    /\ upstream = 0
    /\ event = [rid |-> 0, op |-> "none", req |-> [none |-> TRUE], status |-> 0,
                suggestions |-> SqlNull, lookups |-> 0, detail |-> NoDetail,
                addedDocs |-> {}, removedDocs |-> {},
                changedDocs |-> {}, addedRows |-> 0, changedRows |-> 0, calls |-> 0]

SpecDispatch ==
    /\ DispatchInit
    /\ [][DispatchNext]_vars

\* a request for an analysis of a stored document has arrived
PromptInit ==
    /\ cstate = "idle"
    /\ c_retries = 0
    /\ attempt = 0
    /\ last_error = None
    /\ posts = 0
    /\ ret = NoValue
    /\ exc = None
    /\ printed = "none"
    /\ lastReply = [class |-> "none", value |-> NoValue]
    /\ priorBad = TRUE
    /\ b_in = NoArgs
    /\ b_out = NotCalled
    /\ a_in = NoAnalysis
    /\ a_out = NotAnalyzed
    /\ b_again = NotCalled
    /\ q_in \in {AnalysisRequest(document, fields) : document \in StoredFiles, fields \in RequestBodies}
    /\ q_out = NotSent
    /\ checked_out = 0
    /\ g_last = NoOperation
    /\ workspaces = <<>>
    /\ documents = <<>>
    /\ comparisons = <<>>
    /\ matrices = <<>>
    /\ analyses = <<>>
    /\ charts = <<>>
    /\ qa_history = <<>>
    /\ schema = "init_database"
    /\ nextId = [request |-> 1, workspaces |-> 1, documents |-> 1, analyses |-> 1, charts |-> 1]
    /\ pending = {}
    /\ upstream = 0
    /\ event = [rid |-> 0, op |-> "none", req |-> [none |-> TRUE], status |-> 0,
                suggestions |-> SqlNull, lookups |-> 0, detail |-> NoDetail,
                addedDocs |-> {}, removedDocs |-> {},
                changedDocs |-> {}, addedRows |-> 0, changedRows |-> 0, calls |-> 0]

SpecPrompt ==
    /\ PromptInit
    /\ [][PromptNext]_vars

\* the pool has been created and no connection is borrowed
GatewayInit ==
    /\ cstate = "idle"
    /\ c_retries = 0
    /\ attempt = 0
    /\ last_error = None
    /\ posts = 0
    /\ ret = NoValue
    /\ exc = None
    /\ printed = "none"
    /\ lastReply = [class |-> "none", value |-> NoValue]
    /\ priorBad = TRUE
    /\ b_in = NoArgs
    /\ b_out = NotCalled
    /\ a_in = NoAnalysis
    /\ a_out = NotAnalyzed
    /\ b_again = NotCalled
    /\ q_in = NoRequest
    /\ q_out = NotSent
    /\ checked_out = 0
    /\ g_last = NoOperation
    /\ workspaces = <<>>
    /\ documents = <<>>
    /\ comparisons = <<>>
    /\ matrices = <<>>
    /\ analyses = <<>>
    /\ charts = <<>>
    /\ qa_history = <<>>
    /\ schema = "init_database"
    /\ nextId = [request |-> 1, workspaces |-> 1, documents |-> 1, analyses |-> 1, charts |-> 1]
    /\ pending = {}
    /\ upstream = 0
    /\ event = [rid |-> 0, op |-> "none", req |-> [none |-> TRUE], status |-> 0,
                suggestions |-> SqlNull, lookups |-> 0, detail |-> NoDetail,
                addedDocs |-> {}, removedDocs |-> {},
                changedDocs |-> {}, addedRows |-> 0, changedRows |-> 0, calls |-> 0]

SpecGateway ==
    /\ GatewayInit
    /\ [][GatewayNext]_vars

\* the service has started on empty tables, created by init_database or,
\* before it, by init_tables (CREATE TABLE IF NOT EXISTS keeps what is there)
Init ==
    /\ cstate = "idle"
    /\ c_retries = 0
    /\ attempt = 0
    /\ last_error = None
    /\ posts = 0
    /\ ret = NoValue
    /\ exc = None
    /\ printed = "none"
    /\ lastReply = [class |-> "none", value |-> NoValue]
    /\ priorBad = TRUE
    /\ b_in = NoArgs
    /\ b_out = NotCalled
    /\ a_in = NoAnalysis
    /\ a_out = NotAnalyzed
    /\ b_again = NotCalled
    /\ q_in = NoRequest
    /\ q_out = NotSent
    /\ checked_out = 0
    /\ g_last = NoOperation
    /\ workspaces = <<>>
    /\ documents = <<>>
    /\ comparisons = <<>>
    /\ matrices = <<>>
    /\ analyses = <<>>
    /\ charts = <<>>
    /\ qa_history = <<>>
    /\ schema \in Schemas
    /\ nextId = [request |-> 1, workspaces |-> 1, documents |-> 1, analyses |-> 1, charts |-> 1]
    /\ pending = {}
    /\ upstream = 0
    /\ event = [rid |-> 0, op |-> "none", req |-> [none |-> TRUE], status |-> 0,
                suggestions |-> SqlNull, lookups |-> 0, detail |-> NoDetail,
                addedDocs |-> {}, removedDocs |-> {},
                changedDocs |-> {}, addedRows |-> 0, changedRows |-> 0, calls |-> 0]

Spec == Init /\ [][Next]_vars

SpecResults == Init /\ [][ResultsNext]_vars

SpecDocs == Init /\ [][DocsNext]_vars

(***************************************************************************)
(* Properties of call_openrouter, checked under SpecCaller.                *)
(***************************************************************************)
\* C1: whatever the upstream replies, a call that returns has returned a
\* parsed JSON object: never null, never a list or another non-object value.
C1_ReturnsObject ==
    cstate = "returned" => ret.py = "dict"

\* C2: a call all of whose attempts failed raises after exactly retries + 1
\* POSTs, never fewer and never more, and returns no value.
C2_RaisesAfterAllAttempts ==
    cstate = "raised" => posts = c_retries + 1 /\ ret = NoValue

\* C3: when the replies before the latest were all invalid, unsalvageable
\* JSON, a latest reply of valid JSON is returned as parsed with no POST
\* after it, and a latest reply of invalid JSON with attempts left keeps the
\* call going to its next POST.
C3_ReturnsFirstValid ==
    /\ (priorBad /\ lastReply.class = "json")
           => (cstate = "returned" /\ ret = lastReply.value /\ posts <= c_retries + 1)
    /\ (priorBad /\ lastReply.class = "badjson" /\ posts <= c_retries)
           => cstate = "running"

\* C4: every failure of an attempt (status, envelope, empty content, JSON
\* decode failure, timeout) consumes one attempt, and is followed by a new
\* POST exactly when attempts remain; none ends the call early.
C4_FailuresRetryAlike ==
    lastReply.class \in FailureClasses =>
        IF posts <= c_retries THEN cstate = "running" /\ attempt = posts
        ELSE cstate = "raised"

\* the exceptions the code has for a failure of each class, raised in
\* iteration a
ErrorsOf(class, a) ==
    CASE class = "status" -> {ApiError(500, a)}
      [] class = "envelope" -> {InvalidStructure(a), BodyDecodeError(a), KeyError(a)}
      [] class = "empty" -> {EmptyResponse(a)}
      [] class = "badjson" -> {ParseFailure(a), RecursionError(a)}
      [] class = "timeout" -> {TimedOut(a)}
      \* a content nested beyond the recursion limit of the parser
      [] class \in {"json", "salvageable"} -> {RecursionError(a)}
      [] OTHER -> {}

C6_SalvagedInSameAttempt ==
    /\ lastReply.class = "salvageable"
           => (cstate = "returned" /\ ret = lastReply.value /\ ret.py = "dict")
    /\ lastReply.class = "badjson" => cstate # "returned"

(***************************************************************************)
(* Properties of build_file_content, checked under SpecBuild.              *)
(***************************************************************************)
\* the placeholder notices of lines 62 and 82
Placeholders(filename) ==
    {<<TextPart(<<"Unable to extract text from:", filename>>)>>,
     <<TextPart(<<"Unable to read file:", filename>>)>>}

\* C7: for every supported file type tag and every byte string, empty,
\* malformed and non-UTF-8 ones included, build_file_content returns without
\* raising, and returns a non-empty list whose first part is a non-empty
\* text part: the list is a placeholder notice, or it carries the file.
C7_BuilderNeverRaises ==
    (b_out # NotCalled /\ lower(b_in.file_type) \in AllowedTypes) =>
        /\ ~b_out.raised
        /\ Len(b_out.content) >= 1
        /\ b_out.content[1].type = "text"
        /\ b_out.content[1].text # <<>>
        /\ \/ b_out.content \in Placeholders(b_in.filename)
           \/ Len(b_out.content) = 2 /\ b_out.content[2].data.b64 = b64encode(b_in.file_data)
           \/ /\ Len(b_out.content) = 1
              /\ Len(b_out.content[1].text) >= 4
              /\ SubSeq(b_out.content[1].text, 1, 4)
                     = <<"Analyze this document:", "Filename:", b_in.filename, "Content:">>

\* a txt file that is not UTF-8 gives the placeholder notice
C7_Witness ==
    /\ b_in.file_type = "txt" /\ b_in.file_data = <<"FF">>
    /\ b_out = Built(<<TextPart(<<"Unable to read file:", b_in.filename>>)>>, TEXT_MODEL)

(***************************************************************************)
(* Properties of the handlers, checked under Spec.  event is the step last *)
(* taken: its input, its response and the difference it made.              *)
(***************************************************************************)
\* the upload the specification accepts: the lower-cased text after the last
\* dot of the filename is in the allow-list, and the size is at most 15 MiB
Acceptable(file) ==
    /\ extension(file.filename) \in allowed_types
    /\ file.size <= 15 * 1024 * 1024

Is4xx(status) == status >= 400 /\ status <= 499

\* C8: POST /upload stores exactly one new document if and only if the
\* extension is in the allow-list and the size is at most 15 MiB; otherwise
\* it answers 4xx, stores nothing and makes no upstream call.
C8_StoresIffAcceptable ==
    event.op = "upload" =>
        IF Acceptable(event.req.file)
        THEN Cardinality(event.addedDocs) = 1
        ELSE Is4xx(event.status) /\ event.addedDocs = {} /\ event.calls = 0

\* C8, amended: POST /upload stores exactly one new document if and only if
\* the extension is in the allow-list, the size is at most 15 MiB and the
\* INSERT succeeds.  A refused extension or size is answered 4xx, a failed
\* INSERT 500; both store nothing and make no upstream call.
C8_StoresIffAcceptableAndInserted ==
    event.op = "upload" =>
        /\ Cardinality(event.addedDocs) = 1
               <=> (Acceptable(event.req.file) /\ event.req.insert_ok)
        /\ \A d \in event.addedDocs :
               /\ documents[d].file_type = extension(event.req.file.filename)
               /\ documents[d].file_size = event.req.file.size
        /\ event.removedDocs = {} /\ event.changedDocs = {}
        /\ ~Acceptable(event.req.file)
               => (Is4xx(event.status) /\ event.addedDocs = {} /\ event.calls = 0)
        /\ (Acceptable(event.req.file) /\ ~event.req.insert_ok)
               => (event.status = 500 /\ event.addedDocs = {} /\ event.calls = 0)

\* a.txt of exactly 15 MiB is stored
C8_Witness ==
    /\ event.op = "upload"
    /\ event.req.file = [filename |-> <<"a", ".", "t", "x", "t">>, size |-> 15 * 1024 * 1024]
    /\ event.status = 200
    /\ \E d \in event.addedDocs : documents[d].file_size = 15 * 1024 * 1024

\* C9: when the suggestions step of an upload fails (the upstream call
\* raised, or the suggestions could not be stored), the upload is answered
\* 200 and the step leaves the documents as they were: the document saved
\* before the analysis is neither removed nor changed.
C9_UploadSurvivesAnalysisFailure ==
    (event.op = "upload_resume" /\ (~event.req.outcome \/ ~event.req.ok)) =>
        /\ event.status = 200
        /\ event.removedDocs = {} /\ event.changedDocs = {} /\ event.addedDocs = {}
        /\ ~event.req.outcome => event.suggestions = SqlNull

\* the upstream call of an upload failed: the document is there, without
\* suggestions, and the answer is 200
C9_Witness ==
    /\ event.op = "upload_resume" /\ ~event.req.outcome
    /\ event.status = 200
    /\ event.req.doc_id \in DOMAIN documents
    /\ documents[event.req.doc_id].suggestions = SqlNull

\* C10: POST /compare and POST /decision-matrix with fewer than 2 document
\* ids are answered 400 before any document lookup, upstream call or row
\* insertion; the store is unchanged.
C10_FewerThanTwoRejected ==
    (event.op \in {"compare", "decision_matrix"} /\ Len(event.req.document_ids) < 2) =>
        /\ event.status = 400
        /\ event.lookups = 0 /\ event.calls = 0 /\ event.addedRows = 0
        /\ event.addedDocs = {} /\ event.removedDocs = {} /\ event.changedDocs = {}
        /\ \A p \in pending : p.rid # event.rid

\* a comparison of the one document that exists is refused
C10_Witness ==
    /\ event.op = "compare" /\ event.req.document_ids = <<1>>
    /\ 1 \in DOMAIN documents
    /\ event.status = 400

\* the sum of the weights as a decimal number, in hundredths; a missing
\* weight counts as 0
ExactSum(criteria) ==
    Sum([i \in 1..Len(criteria) |-> IF criteria[i] = NoWeight THEN 0 ELSE criteria[i]])

\* C11: POST /decision-matrix with at least 2 document ids answers 400,
\* citing the sum, when the weights sum to a value outside [0.99, 1.01], and
\* proceeds past the validation for every sum inside the band, both endpoints
\* included.
C11_WeightBand ==
    (event.op = "decision_matrix" /\ Len(event.req.document_ids) >= 2) =>
        IF ExactSum(event.req.criteria) < 99 \/ ExactSum(event.req.criteria) > 101
        THEN /\ event.status = 400
             /\ event.detail = [kind |-> "weights", total |-> float(ExactSum(event.req.criteria))]
        ELSE event.status # 400

(***************************************************************************)
(* Properties of the stored results, checked under SpecResults.            *)
(***************************************************************************)
\* the rows of a table that reference document d
RowsOf(table, d) == {r \in DOMAIN table : table[r].document_id = d}

\* C12: once delete_document(d) has deleted, no row of analysis_results and
\* no row of charts references d, whichever routine created the tables.
C12_NoRowOutlivesItsDocument ==
    (event.op = "delete_document" /\ event.status = 200) =>
        /\ RowsOf(analyses, event.req.doc_id) = {}
        /\ RowsOf(charts, event.req.doc_id) = {}

\* the documents as delete_workspace(w) is said to leave them: all there, those
\* of w with a null workspace reference, nothing else changed
Detached(w) ==
    [d \in DOMAIN documents |->
        IF documents[d].workspace_id = w
        THEN [documents[d] EXCEPT !.workspace_id = NoId] ELSE documents[d]]

\* C13: a delete_workspace(w) that deletes removes the workspace row only:
\* every document is still there, those that referenced w with a null
\* workspace reference and their other fields unchanged, and no row of
\* documents, analysis_results or charts is deleted.
C13_DeleteWorkspaceDetaches ==
    [][(event'.op = "delete_workspace" /\ event'.status = 200) =>
           /\ workspaces' = [w \in (DOMAIN workspaces) \ {event'.req.workspace_id} |-> workspaces[w]]
           /\ documents' = Detached(event'.req.workspace_id)
           /\ analyses' = analyses
           /\ charts' = charts]_vars

\* the second steps of /analyze, /compare, /decision-matrix, /qa and /charts
ResultSteps == {"analyze_resume", "compare_resume", "decision_matrix_resume", "qa_resume", "chart_resume"}

\* C14: a result row is written only by the step that follows the upstream
\* call, and only when that call returned a value; when the call failed the
\* handler answers 500 with the message of the failure and inserts no row.
C14_RowOnlyAfterSuccess ==
    /\ event.addedRows > 0 => (event.op \in ResultSteps /\ event.req.outcome)
    /\ (event.op \in ResultSteps /\ ~event.req.outcome) =>
           /\ event.status = 500
           /\ event.detail = [kind |-> "exception", message |-> event.req.message]
           /\ event.addedRows = 0

\* an analysis whose upstream call failed has been answered
C14_Witness ==
    /\ event.op = "analyze_resume"
    /\ ~event.req.outcome
    /\ event.req.message = "Failed after 3 attempts"
    /\ event.status = 500

(***************************************************************************)
(* Properties of openrouter_service.analyze_document, checked under        *)
(* SpecDispatch.                                                           *)
(***************************************************************************)
\* the eight tags and the template function of each
TemplateOf ==
    [t \in {"summarize", "pros_cons", "gaps_risks", "upgrade", "qa", "chart", "report", "slides"} |->
        CASE t = "summarize" -> "analyze_summarize"
          [] t = "pros_cons" -> "analyze_pros_cons"
          [] t = "gaps_risks" -> "analyze_gaps_risks"
          [] t = "upgrade" -> "analyze_upgrade_suggestions"
          [] t = "qa" -> "analyze_qa"
          [] t = "chart" -> "generate_chart_data"
          [] t = "report" -> "generate_report"
          [] t = "slides" -> "generate_slides"]

\* C15: analyze_document invokes exactly one template function per call, on
\* the file it was given: that of the tag for each of the eight tags, no two
\* tags sharing a function, and analyze_summarize for any other tag, which is
\* handled exactly as summarize.
C15_OneTemplatePerTag ==
    /\ \A s, t \in DOMAIN TemplateOf : s # t => TemplateOf[s] # TemplateOf[t]
    /\ a_out # NotAnalyzed =>
           /\ Len(a_out) = 1
           /\ a_out[1].file = a_in.file
           /\ IF a_in.analysis_type \in DOMAIN TemplateOf
              THEN a_out[1].fn = TemplateOf[a_in.analysis_type]
              ELSE a_out = <<Invoke("analyze_summarize", a_in.file, <<>>)>>

\* a call with a tag outside the eight has been made, with keywords given
C15_Witness ==
    /\ a_out # NotAnalyzed
    /\ a_in.analysis_type = "compare"
    /\ DOMAIN a_in.kwargs = {"question", "chart_type"}
    /\ a_out[1].fn = "analyze_summarize"

(***************************************************************************)
(* The model chosen by build_file_content, checked under SpecBuild.        *)
(***************************************************************************)
\* C16: build_file_content selects PDF_MODEL exactly when the file type is
\* pdf; every other type (docx and doc, the images, the text-like types and
\* unknown ones), placeholder payloads included, gets TEXT_MODEL.
C16_PdfModelIffPdf ==
    b_out # NotCalled =>
        /\ b_out.model = PDF_MODEL <=> lower(b_in.file_type) = "pdf"
        /\ lower(b_in.file_type) # "pdf" => b_out.model = TEXT_MODEL

\* a PDF with content has been built
C16_Witness ==
    /\ b_out # NotCalled
    /\ b_in.file_type = "pdf"
    /\ b_in.file_data # <<>>
    /\ b_out.model = PDF_MODEL

\* a row of analysis_results or charts stays as it is, or goes with its document
KeptOrCascaded(table, tableNext, op, req) ==
    \A r \in DOMAIN table :
        IF r \in DOMAIN tableNext THEN tableNext[r] = table[r]
        ELSE op = "delete_document" /\ req.doc_id = table[r].document_id

\* C17 as stated: the rows of analysis_results, charts and qa_history are
\* append-only: no step changes a field of a row, and a row disappears only
\* by the cascade of the deletion of its document.
C17_AppendOnly ==
    [][/\ KeptOrCascaded(analyses, analyses', event'.op, event'.req)
       /\ KeptOrCascaded(charts, charts', event'.op, event'.req)
       /\ \A r \in DOMAIN qa_history :
              r \in DOMAIN qa_history' /\ qa_history'[r] = qa_history[r]]_vars

\* C17, amended: as above, but the workspace reference of a qa_history row is
\* set to null by the deletion of its workspace (ON DELETE SET NULL); no
\* other field of the row changes and the row stays.
C17_AppendOnlyButWorkspaceRef ==
    [][/\ KeptOrCascaded(analyses, analyses', event'.op, event'.req)
       /\ KeptOrCascaded(charts, charts', event'.op, event'.req)
       /\ \A r \in DOMAIN qa_history :
              /\ r \in DOMAIN qa_history'
              /\ \/ qa_history'[r] = qa_history[r]
                 \/ /\ event'.op = "delete_workspace"
                    /\ qa_history[r].workspace_id = event'.req.workspace_id
                    /\ qa_history'[r] = [qa_history[r] EXCEPT !.workspace_id = NoId]]_vars

\* the workspace of a stored question has been deleted
C17_Witness ==
    /\ event.op = "delete_workspace"
    /\ event.status = 200
    /\ event.changedRows > 0

C19_SuggestionsCached ==
    (event.op = "suggest" /\ event.req.stored # SqlNull) => event.calls = 0

(***************************************************************************)
(* The response of an upload, checked under Spec.                          *)
(***************************************************************************)
\* the extension of each accepted filename, lower-cased
TypeOfName ==
    [n \in {<<"a", ".", "t", "x", "t">>, <<"a", ".", "P", "D", "F">>,
            <<"a", ".", "e", "x", "e", ".", "m", "d">>} |->
        IF n = <<"a", ".", "t", "x", "t">> THEN <<"t", "x", "t">>
        ELSE IF n = <<"a", ".", "P", "D", "F">> THEN <<"p", "d", "f">>
        ELSE <<"m", "d">>]

\* C20: an accepted upload with auto_analyze = false makes no upstream call
\* and answers with the filename, the lower-cased extension as file_type, the
\* byte count as file_size, and suggestions = null.
C20_PlainUploadResponse ==
    (event.op = "upload" /\ event.status = 200 /\ ~event.req.auto_analyze) =>
        /\ event.calls = 0
        /\ event.suggestions = SqlNull
        /\ event.req.file.filename \in DOMAIN TypeOfName
        /\ event.detail = [kind |-> "body", filename |-> event.req.file.filename,
                           file_type |-> TypeOfName[event.req.file.filename],
                           file_size |-> event.req.file.size]

\* the 10-byte a.txt has been uploaded without analysis: a.txt, txt, 10, null
C20_Witness ==
    /\ event.op = "upload" /\ event.status = 200 /\ ~event.req.auto_analyze
    /\ event.detail = [kind |-> "body", filename |-> <<"a", ".", "t", "x", "t">>,
                       file_type |-> <<"t", "x", "t">>, file_size |-> 10]
    /\ event.suggestions = SqlNull
    /\ event.calls = 0

C23_PoolNeverLeaks ==
    /\ checked_out = 0
    /\ g_last.error # "PoolError"

\* the parts of a built content that hold the document: the image or PDF
\* attachment, and the text that follows "Content:"
HoldsDocument(part) ==
    \/ part.type # "text"
    \/ \E i \in 1..Len(part.text) : part.text[i] = "Content:"

\* the document text of a text part: what follows "Content:"
DocumentText(part) ==
    LET i == CHOOSE k \in 1..Len(part.text) : part.text[k] = "Content:"
    IN  SubSeq(part.text, i + 1, Len(part.text))

\* a part sent carries the document of a built part: the same attachment, or
\* a text that ends with the document text
Carries(sent, part) ==
    IF part.type # "text" THEN sent = part
    ELSE /\ sent.type = "text"
         /\ Len(sent.text) >= Len(DocumentText(part))
         /\ SubSeq(sent.text, Len(sent.text) - Len(DocumentText(part)) + 1, Len(sent.text))
                = DocumentText(part)

\* C24: whatever the analysis type and the file type, the content handed to
\* call_openrouter carries every part of the content of build_file_content
\* that holds the document: the extracted or decoded text, the image data
\* URI, or the PDF attachment.
C24_ContentSent ==
    \A k \in 1..Len(q_out) :
        LET built == build_file_content(q_in.document.file_data, q_in.document.filename,
                                        q_in.document.file_type)
        IN  \A i \in 1..Len(built.content) :
                HoldsDocument(built.content[i]) =>
                    \E j \in 1..Len(q_out[k].content) : Carries(q_out[k].content[j], built.content[i])

\* C30: a qa analysis requested with the question omitted or null sends the
\* default question, "What is this document about?", to the model.
C30_DefaultQuestion ==
    \A k \in 1..Len(q_out) :
        (q_in.analysis_type = "qa" /\ q_in.question = NoneArg) =>
            /\ q_out[k].fn = "analyze_qa"
            /\ q_out[k].content[1].text =
                   <<"Document:", q_in.document.filename, "Question:", "What is this document about?">>

(***************************************************************************)
(* Properties of the handlers that change workspaces and documents and of  *)
(* the handlers that call upload_document, checked under SpecDocs; of the  *)
(* result rows while documents are deleted, under SpecResults.             *)
(***************************************************************************)
\* C21: in every step, a document that is stored before and after it keeps
\* its filename, file type, byte size and bytes (only its suggestions and its
\* workspace reference may differ), and a document that appears gets an id
\* that no document had before.
C21_StoredDocumentImmutable ==
    [][/\ \A d \in (DOMAIN documents) \cap (DOMAIN documents') :
              /\ documents'[d].filename = documents[d].filename
              /\ documents'[d].file_type = documents[d].file_type
              /\ documents'[d].file_size = documents[d].file_size
              /\ documents'[d].file_data = documents[d].file_data
       /\ \A d \in (DOMAIN documents') \ (DOMAIN documents) : d >= nextId.documents]_vars

C21_Witness ==
    /\ event.op \in {"assign_all", "move_document"}
    /\ event.changedDocs # {}
    /\ \E d \in event.changedDocs : documents[d].suggestions # SqlNull

\* C25: in every reachable state every row of analysis_results and of charts
\* references a stored document, and an /analyze or /charts request whose
\* document was deleted while it waited for the upstream call ends in an
\* error and writes no row.
C25_ResultsReferenceDocuments ==
    /\ \A r \in DOMAIN analyses : analyses[r].document_id \in DOMAIN documents
    /\ \A r \in DOMAIN charts : charts[r].document_id \in DOMAIN documents
    /\ (event.op \in {"analyze_resume", "chart_resume"} /\ event.req.doc_id \notin DOMAIN documents) =>
           (event.status = 500 /\ event.addedRows = 0)

\* C26: a PUT /workspaces/{id} that the store serves answers "Workspace
\* updated"; without a name, or with an empty one, it leaves every workspace
\* row as it was, description included; and so it does for an id that names
\* no workspace.
C26_UpdateNeedsName ==
    [][(event'.op = "update_workspace" /\ event'.req.ok) =>
           /\ event'.status = 200
           /\ event'.detail = Message("Workspace updated")
           /\ (~truthy(event'.req.name) => workspaces' = workspaces)
           /\ (event'.req.workspace_id \notin DOMAIN workspaces => workspaces' = workspaces)]_vars

C26_Witness ==
    /\ event.op = "update_workspace"
    /\ event.status = 200
    /\ ~truthy(event.req.name)
    /\ event.req.description = <<"d">>
    /\ event.req.workspace_id \in DOMAIN workspaces

\* C27: once POST /analyze-upload has stored its document, a failure of what
\* follows (the lookup, the upstream analysis, the INSERT of the result) ends
\* the request with an error and removes no document; a failed analysis
\* leaves the documents, suggestions included, exactly as they were.
C27_NoRollback ==
    [][/\ (event'.op \in {"analyze_upload_suggested", "analyze_upload_resume"} /\ event'.status >= 400) =>
              DOMAIN documents' = DOMAIN documents
       /\ (event'.op = "analyze_upload_resume" /\ ~(event'.req.outcome /\ event'.req.ok)) =>
              (event'.status = 500 /\ documents' = documents)]_vars

C27_Witness ==
    /\ event.op = "analyze_upload_resume"
    /\ event.status = 500
    /\ ~event.req.outcome
    /\ event.req.doc_id \in DOMAIN documents
    /\ documents[event.req.doc_id].suggestions # SqlNull

\* C28: a step of delete_document leaves every row of comparisons, of
\* decision_matrices and of qa_history as it was, document-id lists included.
C28_DeleteKeepsIdLists ==
    [][event'.op = "delete_document" =>
           /\ comparisons' = comparisons
           /\ matrices' = matrices
           /\ qa_history' = qa_history]_vars

C28_Witness ==
    /\ event.op = "delete_document"
    /\ event.status = 200
    /\ 1 \in event.removedDocs
    /\ \E c \in DOMAIN comparisons : comparisons[c].document_ids = json_dumps(PyIds(<<1, 1>>))

\* the steps of POST /upload-multiple, and the files of the request of a step
BatchSteps == {"upload_multiple", "upload_multiple_resume"}
SubmittedFiles == IF event.op = "upload_multiple" THEN event.req.files ELSE event.req.request.files

\* the response lists one entry per file, in the order of the files: the
\* filename and the error of a file refused for its extension or its size,
\* the filename and the new id of every other file
OneEntryPerFile ==
    /\ event.status = 200
    /\ event.detail.kind = "uploaded"
    /\ Len(event.detail.results) = Len(SubmittedFiles)
    /\ \A i \in 1..Len(SubmittedFiles) :
           IF rejection(SubmittedFiles[i]) # "none"
           THEN event.detail.results[i] = ErrorEntry(SubmittedFiles[i])
           ELSE /\ event.detail.results[i].kind = "stored"
                /\ event.detail.results[i].filename = filename_of(SubmittedFiles[i])
                /\ event.detail.results[i].id \in 1..(nextId.documents - 1)
    /\ \A i, k \in 1..Len(SubmittedFiles) :
           (i < k /\ event.detail.results[i].kind = "stored" /\ event.detail.results[k].kind = "stored")
               => event.detail.results[i].id < event.detail.results[k].id

\* C29: every POST /upload-multiple that has ended has returned one entry per
\* submitted file, in submission order.
C29_OneEntryPerFile ==
    (event.op \in BatchSteps /\ event.status # 0) => OneEntryPerFile

\* C29, amended: a POST /upload-multiple that has ended has returned one
\* entry per submitted file, in submission order, or else the INSERT of one
\* of its files raised, the request ended with a 500, and no document was
\* removed.
C29_OneEntryPerFileUnlessInsertFails ==
    (event.op \in BatchSteps /\ event.status # 0) =>
        \/ OneEntryPerFile
        \/ /\ event.status = 500
           /\ \E i \in 1..Len(SubmittedFiles) : rejection(SubmittedFiles[i]) = "none"
           /\ event.removedDocs = {}

C29_Witness ==
    /\ event.op = "upload_multiple_resume"
    /\ event.status = 200
    /\ Len(event.detail.results) = 3
    /\ event.detail.results[1].kind = "stored"
    /\ event.detail.results[2].kind = "error"
    /\ event.detail.results[3].kind = "stored"
    /\ {event.detail.results[1].id, event.detail.results[3].id} \subseteq DOMAIN documents

=============================================================================
